---- MODULE Spec2Model ----
(***************************************************************************)
(* Model of the BOP digital twin: the acceptance evaluators                *)
(* (pressure test, soak test, function test, legacy hold-drop rule) and    *)
(* the orifice valve.                                                      *)
(*                                                                         *)
(* Numbers.  The program computes in floating point; the model computes    *)
(* in exact integer fixed point:                                           *)
(*   pressure (psi)      hundredths of a psi        (cpsi)                 *)
(*   pressure (Pa)       Pa                                                *)
(*   pressure (bar)      thousandths of a bar       (mbar)                 *)
(*   time                seconds (evaluators), tenths of a second          *)
(*                       (closing times)                                   *)
(*   means               kept as (sum, count), compared by cross           *)
(*                       multiplication, so no rounding enters a verdict   *)
(* An optional argument is <<>> (None) or <<v>>.                           *)
(***************************************************************************)
EXTENDS Integers, Sequences, FiniteSets, TLC

VARIABLES op, args, ret, obj, prev

vars == <<op, args, ret, obj, prev>>

---------------------------------------------------------------------------
(* Arithmetic helpers *)

NoneV == <<>>
Some(v) == <<v>>
IsNone(x) == x = <<>>
Val(x) == x[1]

Max(a, b) == IF a >= b THEN a ELSE b
Min(a, b) == IF a <= b THEN a ELSE b
Abs(a) == IF a < 0 THEN 0 - a ELSE a
Sign(a) == IF a > 0 THEN 1 ELSE IF a < 0 THEN 0 - 1 ELSE 0
Clip(x, lo, hi) == Min(Max(x, lo), hi)

RECURSIVE GCD(_, _)
GCD(a, b) == IF b = 0 THEN a ELSE GCD(b, a % b)

\* floor(x * a / b) for x, a >= 0 and b > 0, without forming x * a
MulDiv(x, a, b) == (x \div b) * a + ((x % b) * a) \div b

RECURSIVE SumTo(_, _, _)
SumTo(F(_), lo, hi) ==
    IF lo > hi THEN 0
    ELSE IF lo = hi THEN F(lo)
    ELSE SumTo(F, lo, (lo + hi) \div 2) + SumTo(F, (lo + hi) \div 2 + 1, hi)

RECURSIVE BuildSeq(_, _, _)
BuildSeq(F(_), lo, hi) ==
    IF lo > hi THEN <<>>
    ELSE IF lo = hi THEN <<F(lo)>>
    ELSE BuildSeq(F, lo, (lo + hi) \div 2) \o BuildSeq(F, (lo + hi) \div 2 + 1, hi)

SeqMax(s) == CHOOSE v \in {s[i] : i \in 1..Len(s)} : \A j \in 1..Len(s) : s[j] <= v
SeqMin(s) == CHOOSE v \in {s[i] : i \in 1..Len(s)} : \A j \in 1..Len(s) : s[j] >= v

\* the result of a call that raised
Raised(what) == [raised |-> TRUE, error |-> what]
\* a verdict
Verdict(ok, reason, details) == [raised |-> FALSE, ok |-> ok, reason |-> reason, details |-> details]

---------------------------------------------------------------------------
(* pressure_acceptance_v2.py *)

DefaultPressureTestSpec(mode) ==
    [ mode |-> mode,
      observation_min |-> 5,
      low_min_psi |-> 25000,
      low_max_psi |-> 35000,
      low_drain_upper_psi |-> 50000,
      low_max_rise_psi |-> 1000,
      max_drop_low_psi |-> 1000,
      max_drop_high_psi |-> 4000,
      min_high_test_psi |-> 200000,
      enforce_min_high_test |-> TRUE,
      require_rwp_stabilization_rule |-> FALSE,
      min_rwp_fraction |-> 97,
      check_measured_bop_pressure |-> FALSE,
      measured_bop_constant_psi_per_m_sg |-> 1704 ]

LowerUnit(u) == CASE u = "PSI" -> "psi" [] u = "Pa" -> "pa" [] u = "BAR" -> "bar" [] OTHER -> u

SupportedUnit(u) == LowerUnit(u) \in {"psi", "pa", "bar"}

\* one sample converted to cpsi: Pa / 6894.75729, bar * 14.5037738
ToPsi(x, pressure_unit) ==
    LET unit == LowerUnit(pressure_unit)
        mag == Abs(x)
        conv == IF unit = "psi" THEN mag
                ELSE IF unit = "pa" THEN MulDiv(mag, 1000, 68948)
                ELSE MulDiv(mag, 14504, 10000)
    IN Sign(x) * conv

\* the median of the w samples xp[i .. i+w-1] of the edge-padded series
WindowMedian(x, i, w) ==
    LET n == Len(x)
        pad == w \div 2
        at(j) == x[Clip(j - pad, 1, n)]
        js == i..(i + w - 1)
    IN CHOOSE v \in {at(j) : j \in js} :
          /\ Cardinality({j \in js : at(j) < v}) <= pad
          /\ Cardinality({j \in js : at(j) <= v}) > pad

RollingMedian(x, window) ==
    IF window <= 1 THEN x
    ELSE LET w == IF window % 2 = 0 THEN window + 1 ELSE window
         IN BuildSeq(LAMBDA i : WindowMedian(x, i, w), 1, Len(x))

WindowIndices(t, t_end, duration_s) ==
    LET t0 == t_end - duration_s
    IN SelectSeq(BuildSeq(LAMBDA i : i, 1, Len(t)), LAMBDA i : t[i] >= t0 /\ t[i] <= t_end)

\* k = max(3, int(0.2 * n))
EdgeCount(n) == Max(3, n \div 5)

\* sums of the first and of the last k in-window samples, and k
RobustStartEndMean(p, idx) ==
    LET n == Len(idx)
        k == EdgeCount(n)
    IN IF n < 10 THEN Raised("ValueError: Not enough samples inside observation window")
       ELSE [ raised |-> FALSE,
              k |-> k,
              start_sum |-> SumTo(LAMBDA j : p[idx[j]], 1, k),
              end_sum |-> SumTo(LAMBDA j : p[idx[j]], n - k + 1, n) ]

\* the allowance as it would be without the 500 psi cap
MaxOverpressureFivePercent(rwp_psi) == rwp_psi \div 20

MaxOverpressureAllowed(rwp_psi) == Min(rwp_psi \div 20, 50000)

BopMeasuredPressurePsi(ptest_psi, fluid_density_kg_m3, lda_m, constant_psi_per_m_sg) ==
    ptest_psi + MulDiv(constant_psi_per_m_sg * lda_m, fluid_density_kg_m3, 100000)

\* indices of time_s in ascending time order (np.argsort)
ArgSort(t) ==
    LET n == Len(t)
        rank(i) == 1 + Cardinality({j \in 1..n : t[j] < t[i] \/ (t[j] = t[i] /\ j < i)})
    IN BuildSeq(LAMBDA r : CHOOSE i \in 1..n : rank(i) = r, 1, n)

Unsorted(t) == \E i \in 1..(Len(t) - 1) : t[i + 1] < t[i]

\* the series as evaluate_pressure_test sees it after sorting, conversion
\* and smoothing: [t, p], p in cpsi
PreparedSeries(a) ==
    LET order == IF Unsorted(a.time_s) THEN ArgSort(a.time_s)
                 ELSE BuildSeq(LAMBDA i : i, 1, Len(a.time_s))
        t == BuildSeq(LAMBDA i : a.time_s[order[i]], 1, Len(order))
        p_raw == BuildSeq(LAMBDA i : ToPsi(a.pressure_psi[order[i]], a.pressure_unit), 1, Len(order))
    IN [t |-> t, p |-> RollingMedian(p_raw, a.smooth_window)]

ObservationIdx(a, t) == WindowIndices(t, t[Len(t)], a.spec.observation_min * 60)

DropExceedsOrEqual(drop_sum, k, limit) == drop_sum >= limit * k

\* drop > limit, for drop = drop_sum / k
DropExceeds(drop_sum, k, limit) == drop_sum > limit * k

\* rise > limit, for rise = rise_sum / k
RiseExceeds(rise_sum, k, limit) == rise_sum > limit * k

BopCheckRequested(a) ==
    /\ a.spec.check_measured_bop_pressure
    /\ ~IsNone(a.bop_nominal_pressure_psi)
    /\ ~IsNone(a.fluid_density_kg_m3)
    /\ ~IsNone(a.lda_m)

\* the low-mode checks as they would be if the drain threshold were looked
\* for in the observation window only
LowModeChecksDrainInWindowOnly(a, p, idx, m) ==
    LET p_obs == BuildSeq(LAMBDA j : p[idx[j]], 1, Len(idx))
        pmin_obs == SeqMin(p_obs)
        pmax_obs == SeqMax(p_obs)
        drop_sum == m.start_sum - m.end_sum
        rise_sum == m.end_sum - m.start_sum
    IN IF pmin_obs < a.spec.low_min_psi \/ pmax_obs > a.spec.low_max_psi
       THEN IF pmax_obs > a.spec.low_drain_upper_psi
            THEN Verdict(FALSE, "low_test_exceeded_500psi_requires_redo",
                         [pmin_obs |-> pmin_obs, pmax_obs |-> pmax_obs])
            ELSE Verdict(FALSE, "low_test_outside_250_350_during_observation",
                         [pmin_obs |-> pmin_obs, pmax_obs |-> pmax_obs])
       ELSE IF DropExceeds(drop_sum, m.k, a.spec.max_drop_low_psi)
       THEN Verdict(FALSE, "low_test_drop_exceeds_limit",
                    [drop_sum |-> drop_sum, k |-> m.k])
       ELSE IF RiseExceeds(rise_sum, m.k, a.spec.low_max_rise_psi)
       THEN Verdict(FALSE, "low_test_rise_exceeds_limit",
                    [drop_sum |-> drop_sum, k |-> m.k])
       ELSE Verdict(TRUE, "ok", [drop_sum |-> drop_sum, k |-> m.k])

LowModeChecks(a, p, idx, m) ==
    LET p_obs == BuildSeq(LAMBDA j : p[idx[j]], 1, Len(idx))
        pmin_obs == SeqMin(p_obs)
        pmax_obs == SeqMax(p_obs)
        drop_sum == m.start_sum - m.end_sum
        rise_sum == m.end_sum - m.start_sum
    IN IF pmin_obs < a.spec.low_min_psi \/ pmax_obs > a.spec.low_max_psi
       THEN IF \E i \in 1..Len(p) : p[i] > a.spec.low_drain_upper_psi
            THEN Verdict(FALSE, "low_test_exceeded_500psi_requires_redo",
                         [pmin_obs |-> pmin_obs, pmax_obs |-> pmax_obs])
            ELSE Verdict(FALSE, "low_test_outside_250_350_during_observation",
                         [pmin_obs |-> pmin_obs, pmax_obs |-> pmax_obs])
       ELSE IF DropExceeds(drop_sum, m.k, a.spec.max_drop_low_psi)
       THEN Verdict(FALSE, "low_test_drop_exceeds_limit",
                    [drop_sum |-> drop_sum, k |-> m.k])
       ELSE IF RiseExceeds(rise_sum, m.k, a.spec.low_max_rise_psi)
       THEN Verdict(FALSE, "low_test_rise_exceeds_limit",
                    [drop_sum |-> drop_sum, k |-> m.k])
       ELSE Verdict(TRUE, "ok", [drop_sum |-> drop_sum, k |-> m.k])

\* the high-mode checks as they would be if the drop limit were examined
\* before the samples are compared with the designated pressure
\* the stabilization limit as it would be if only the designated pressure
\* counted
StabilizationLimitDesignatedOnly(designated, rwp_psi, min_rwp_fraction) == designated

\* max(designated, min_rwp_fraction * rwp), min_rwp_fraction in percent
StabilizationLimit(designated, rwp_psi, min_rwp_fraction) ==
    Max(designated, MulDiv(rwp_psi, min_rwp_fraction, 100))

HighModeChecksDropFirst(a, p, idx, m) ==
    LET p_obs == BuildSeq(LAMBDA j : p[idx[j]], 1, Len(idx))
        pmin_obs == SeqMin(p_obs)
        drop_sum == m.start_sum - m.end_sum
        designated == Val(a.designated_pressure_psi)
        stabilization_limit == StabilizationLimit(designated, Val(a.rwp_psi), a.spec.min_rwp_fraction)
    IN IF IsNone(a.designated_pressure_psi)
       THEN Verdict(FALSE, "missing_designated_pressure_for_high_test", <<>>)
       ELSE IF /\ a.spec.enforce_min_high_test
               /\ designated < a.spec.min_high_test_psi
               /\ ~a.high_test_justified_below_min
       THEN Verdict(FALSE, "high_test_designated_pressure_below_minimum_2000psi",
                    [designated |-> designated])
       ELSE IF DropExceeds(drop_sum, m.k, a.spec.max_drop_high_psi)
       THEN Verdict(FALSE, "high_test_drop_exceeds_limit",
                    [drop_sum |-> drop_sum, k |-> m.k])
       ELSE IF pmin_obs < designated
       THEN Verdict(FALSE, "high_test_below_designated_requires_repressurize_restart_window",
                    [pmin_obs |-> pmin_obs, designated |-> designated])
       ELSE IF /\ a.spec.require_rwp_stabilization_rule
               /\ ~IsNone(a.rwp_psi)
               /\ m.end_sum < stabilization_limit * m.k
       THEN Verdict(FALSE, "high_test_stabilization_below_required_limit",
                    [end_sum |-> m.end_sum, k |-> m.k, stabilization_limit |-> stabilization_limit])
       ELSE Verdict(TRUE, "ok", [drop_sum |-> drop_sum, k |-> m.k])

HighModeChecks(a, p, idx, m) ==
    LET p_obs == BuildSeq(LAMBDA j : p[idx[j]], 1, Len(idx))
        pmin_obs == SeqMin(p_obs)
        drop_sum == m.start_sum - m.end_sum
        designated == Val(a.designated_pressure_psi)
        stabilization_limit == StabilizationLimit(designated, Val(a.rwp_psi), a.spec.min_rwp_fraction)
    IN IF IsNone(a.designated_pressure_psi)
       THEN Verdict(FALSE, "missing_designated_pressure_for_high_test", <<>>)
       ELSE IF /\ a.spec.enforce_min_high_test
               /\ designated < a.spec.min_high_test_psi
               /\ ~a.high_test_justified_below_min
       THEN Verdict(FALSE, "high_test_designated_pressure_below_minimum_2000psi",
                    [designated |-> designated])
       ELSE IF pmin_obs < designated
       THEN Verdict(FALSE, "high_test_below_designated_requires_repressurize_restart_window",
                    [pmin_obs |-> pmin_obs, designated |-> designated])
       ELSE IF DropExceeds(drop_sum, m.k, a.spec.max_drop_high_psi)
       THEN Verdict(FALSE, "high_test_drop_exceeds_limit",
                    [drop_sum |-> drop_sum, k |-> m.k])
       ELSE IF /\ a.spec.require_rwp_stabilization_rule
               /\ ~IsNone(a.rwp_psi)
               /\ m.end_sum < stabilization_limit * m.k
       THEN Verdict(FALSE, "high_test_stabilization_below_required_limit",
                    [end_sum |-> m.end_sum, k |-> m.k, stabilization_limit |-> stabilization_limit])
       ELSE Verdict(TRUE, "ok", [drop_sum |-> drop_sum, k |-> m.k])

\* the checks after the observation window has been extracted
WindowChecks(a, p, idx) ==
    LET m == RobustStartEndMean(p, idx)
        pmax == SeqMax(p)
        p_bop_measured_psi ==
            BopMeasuredPressurePsi(pmax, Val(a.fluid_density_kg_m3), Val(a.lda_m),
                                   a.spec.measured_bop_constant_psi_per_m_sg)
    IN IF m.raised THEN m
       ELSE IF BopCheckRequested(a) /\ p_bop_measured_psi > Val(a.bop_nominal_pressure_psi)
       THEN Verdict(FALSE, "bop_measured_pressure_above_nominal_limit",
                    [ptest_surface_psi |-> pmax, p_measured_bop_psi |-> p_bop_measured_psi])
       ELSE IF ~IsNone(a.rwp_psi)
               /\ pmax > Val(a.rwp_psi) + MaxOverpressureAllowed(Val(a.rwp_psi))
       THEN Verdict(FALSE, "overpressure_above_rwp_limit",
                    [pmax |-> pmax, rwp |-> Val(a.rwp_psi)])
       ELSE IF a.spec.mode = "low" THEN LowModeChecks(a, p, idx, m)
       ELSE IF a.spec.mode = "high" THEN HighModeChecks(a, p, idx, m)
       ELSE Verdict(FALSE, "unknown_mode", [mode |-> a.spec.mode])

TooFewInWindowNever(idx) == FALSE

\* len(idx) < 10
TooFewInWindow(idx) == Len(idx) < 10

\* evaluate_pressure_test as it would be if it cut both series to the
\* shorter one instead of raising
EvaluatePressureTestTruncating(a) ==
    LET n == Min(Len(a.time_s), Len(a.pressure_psi))
        b == [a EXCEPT !.time_s = SubSeq(a.time_s, 1, n),
                       !.pressure_psi = SubSeq(a.pressure_psi, 1, n)]
    IN IF n < 20
       THEN Verdict(FALSE, "series_too_short", [n |-> n])
       ELSE IF ~SupportedUnit(b.pressure_unit)
       THEN Raised("ValueError: Unsupported pressure unit")
       ELSE IF TooFewInWindow(ObservationIdx(b, PreparedSeries(b).t))
       THEN Verdict(FALSE, "insufficient_samples_in_observation_window",
                    [n_obs |-> Len(ObservationIdx(b, PreparedSeries(b).t))])
       ELSE WindowChecks(b, PreparedSeries(b).p, ObservationIdx(b, PreparedSeries(b).t))

EvaluatePressureTest(a) ==
    IF Len(a.time_s) # Len(a.pressure_psi)
    THEN Raised("ValueError: time_s and pressure_psi must have same length")
    ELSE IF Len(a.time_s) < 20
    THEN Verdict(FALSE, "series_too_short", [n |-> Len(a.time_s)])
    ELSE IF ~SupportedUnit(a.pressure_unit)
    THEN Raised("ValueError: Unsupported pressure unit")
    ELSE LET s == PreparedSeries(a)
             idx == ObservationIdx(a, s.t)
         IN IF TooFewInWindow(idx)
            THEN Verdict(FALSE, "insufficient_samples_in_observation_window",
                         [n_obs |-> Len(idx)])
            ELSE WindowChecks(a, s.p, idx)

Init ==
    /\ op = "init"
    /\ args = <<>>
    /\ ret = <<>>
    /\ obj = <<>>
    /\ prev = <<>>

---------------------------------------------------------------------------
(* Inputs of evaluate_pressure_test *)

\* len(t) < 20 is too short
MinSamples == 20
\* the longest series drawn
MaxSamples == 22
\* samples before the step series reaches its first level
PreLen == 8
\* samples of the step series at its last level
TailLen == 5

TimeGrid(n, dt) == BuildSeq(LAMBDA i : (i - 1) * dt, 1, n)

\* pre for the first PreLen samples, then a, then b for the last TailLen;
\* sample spikeAt (0: none) replaced by spikeVal
StepSeries(n, pre, a, b, spikeAt, spikeVal) ==
    BuildSeq(LAMBDA i : IF i = spikeAt THEN spikeVal
                        ELSE IF i <= PreLen THEN pre
                        ELSE IF i <= n - TailLen THEN a
                        ELSE b, 1, n)

Reverse(s) == BuildSeq(LAMBDA i : s[Len(s) + 1 - i], 1, Len(s))

SeriesLengths == {MinSamples - 1, MinSamples, MaxSamples}

PressureArgs(t, p, spec, designated, rwp, unit, window, justified, bop, rho, lda) ==
    [ time_s |-> t, pressure_psi |-> p, spec |-> spec,
      designated_pressure_psi |-> designated, rwp_psi |-> rwp,
      pressure_unit |-> unit, smooth_window |-> window,
      high_test_justified_below_min |-> justified,
      bop_nominal_pressure_psi |-> bop, fluid_density_kg_m3 |-> rho, lda_m |-> lda ]

LowInputs ==
    { PressureArgs(IF rev THEN Reverse(TimeGrid(n, dt)) ELSE TimeGrid(n, dt),
                   IF rev THEN Reverse(StepSeries(n, IF hist THEN 52000 ELSE a, a, a - d, spikeAt, 60000))
                          ELSE StepSeries(n, IF hist THEN 52000 ELSE a, a, a - d, spikeAt, 60000),
                   DefaultPressureTestSpec("low"), NoneV, rwp, "psi", w, FALSE, NoneV, NoneV, NoneV) :
        n \in SeriesLengths, dt \in {10, 30, 60}, rev \in BOOLEAN, hist \in BOOLEAN,
        a \in {26000, 31000, 35000}, d \in {0, 999, 1000, 1001, 0 - 1000, 0 - 1001},
        spikeAt \in {0, MinSamples - 2}, rwp \in {NoneV, Some(40000)}, w \in {1, 11} }

HighInputs ==
    { PressureArgs(TimeGrid(n, dt),
                   StepSeries(n, a, a, a - d, spikeAt, 600000),
                   [DefaultPressureTestSpec("high") EXCEPT !.require_rwp_stabilization_rule = stab],
                   designated, rwp, "psi", w, justified, NoneV, NoneV, NoneV) :
        n \in {MinSamples, MaxSamples}, dt \in {10, 30},
        a \in {500000, 505000}, d \in {0, 4000, 4001, 5001},
        spikeAt \in {0, MinSamples - 2}, rwp \in {NoneV, Some(520000)}, w \in {1, 11},
        stab \in BOOLEAN, justified \in BOOLEAN,
        designated \in {NoneV, Some(150000), Some(500000)} }

\* other units, an unknown mode, the depth-corrected check, other windows,
\* series of different lengths
OtherInputs ==
    { PressureArgs(TimeGrid(n, 30), StepSeries(n, lv[2], lv[2], lv[3], 0, 0),
                   [DefaultPressureTestSpec(mode) EXCEPT !.check_measured_bop_pressure = bop[1],
                                                         !.observation_min = obs],
                   Some(25000), NoneV, lv[1], w, TRUE, bop[2], bop[3], bop[4]) :
        n \in SeriesLengths,
        lv \in { <<"psi", 31000, 30000>>, <<"PSI", 31000, 29000>>, <<"pa", 2137375, 2068427>>,
                 <<"bar", 21374, 20684>>, <<"atm", 21, 20>> },
        mode \in {"low", "high", "medium"},
        obs \in {5, 1, 0 - 1},
        w \in {0, 4, 11},
        bop \in { <<FALSE, NoneV, NoneV, NoneV>>, <<TRUE, Some(50000), Some(1000), NoneV>>,
                  <<TRUE, Some(50000), Some(1030), Some(1000)>>,
                  <<TRUE, Some(50000), Some(1030), Some(1200)>> } }
    \cup
    { PressureArgs(TimeGrid(n, 30), StepSeries(n - 1, 31000, 31000, 30000, 0, 0),
                   DefaultPressureTestSpec("low"), NoneV, NoneV, "psi", 11, FALSE, NoneV, NoneV, NoneV) :
        n \in SeriesLengths }

\* high tests designated below min_high_test_psi, the minimum enforced or not
BelowMinimumHighInputs ==
    { PressureArgs(TimeGrid(MinSamples, 10),
                   StepSeries(MinSamples, a, a, a - d, 0, 0),
                   [DefaultPressureTestSpec("high") EXCEPT !.enforce_min_high_test = enforce],
                   Some(150000), NoneV, "psi", 11, justified, NoneV, NoneV, NoneV) :
        a \in {150000, 155000}, d \in {0, 4000, 4001, 5001},
        enforce \in BOOLEAN, justified \in BOOLEAN }

\* tests near an RWP of 15000 psi, where 5% of RWP is above 500 psi, with
\* and without the depth-corrected check
HighRwpInputs ==
    { PressureArgs(TimeGrid(MinSamples, 10),
                   StepSeries(MinSamples, a, a, a, 0, 0),
                   [DefaultPressureTestSpec(mode) EXCEPT !.check_measured_bop_pressure = bop[1]],
                   designated, Some(1500000), "psi", 11, FALSE, bop[2], bop[3], bop[4]) :
        a \in {1540000, 1550000, 1550001, 1560000},
        mode \in {"low", "high", "medium"},
        designated \in {NoneV, Some(1500000)},
        bop \in { <<FALSE, NoneV, NoneV, NoneV>>,
                  <<TRUE, Some(1600000), Some(1030), Some(1000)>>,
                  <<TRUE, Some(1550000), Some(1030), Some(1000)>> } }

PressureTestInputs ==
    LowInputs \cup HighInputs \cup BelowMinimumHighInputs \cup HighRwpInputs \cup OtherInputs

CallEvaluatePressureTest ==
    /\ op = "init"
    /\ \E a \in PressureTestInputs :
          /\ op' = "evaluate_pressure_test"
          /\ args' = a
          /\ ret' = EvaluatePressureTest(a)
    /\ UNCHANGED <<obj, prev>>

NextPressure == CallEvaluatePressureTest

SpecPressure == Init /\ [][NextPressure]_vars

---------------------------------------------------------------------------
(* soak_test_acceptance.py *)

DefaultSoakTestSpec ==
    [ duration_min |-> 15,
      step_min |-> 5,
      extend_if_dubious |-> TRUE,
      dubious_fraction_of_limit |-> 90,
      min_required_pump_interval_h |-> 4,
      min_operation_interval_min |-> 30 ]

RoundDown(x10) == x10 \div 10

\* round() of a pressure given in tenths of a psi: to the nearest integer,
\* a tie to the even one
RoundHalfEven(x10) ==
    LET fl == x10 \div 10
        r == x10 % 10
    IN IF r < 5 THEN fl
       ELSE IF r > 5 THEN fl + 1
       ELSE IF fl % 2 = 0 THEN fl ELSE fl + 1

\* pump_start_psi in tenths of a psi; the result in cpsi
AllowedDropPerStep(pump_start_psi) ==
    LET ps == RoundHalfEven(pump_start_psi)
    IN IF ps \in {2700, 4700} THEN 600
       ELSE IF ps = 4600 THEN 800
       ELSE IF ps = 4500 THEN 1000
       ELSE 600

\* int(duration_min / step_min), truncated toward zero
BlockCount(spec) ==
    IF spec.duration_min < 0 THEN 0 - ((0 - spec.duration_min) \div spec.step_min)
    ELSE spec.duration_min \div spec.step_min

\* block k of the window starting at t_start: the indices of t15 in [a, b]
BlockIdx(t15, t_start, step_s, k) ==
    LET a == t_start + k * step_s
        b == a + step_s
    IN SelectSeq(BuildSeq(LAMBDA i : i, 1, Len(t15)), LAMBDA i : t15[i] >= a /\ t15[i] <= b)

\* the drop of one block as [sum, k]: drop = sum / k
BlockDrop(p15, idx) ==
    LET n == Len(idx)
        k == EdgeCount(n)
    IN [ sum |-> SumTo(LAMBDA j : p15[idx[j]], 1, k) - SumTo(LAMBDA j : p15[idx[j]], n - k + 1, n),
         k |-> k ]

WithinAllowedStrict(d, allow) == d.sum < allow * d.k

\* d <= allow
WithinAllowed(d, allow) == d.sum <= allow * d.k

DubiousOnlyAboveLimit(d, allow, fraction) == d.sum > allow * d.k

\* d > dubious_fraction_of_limit * allow
Dubious(d, allow, fraction) == d.sum * 100 > fraction * allow * d.k

SoakVerdict(a, t15, p15, t_start) ==
    LET spec == a.spec
        step_s == spec.step_min * 60
        nblocks == BlockCount(spec)
        blocks == BuildSeq(LAMBDA k : BlockIdx(t15, t_start, step_s, k - 1), 1, nblocks)
        short == {k \in 1..nblocks : Len(blocks[k]) < 5}
        first_short == CHOOSE k \in short : \A j \in short : k <= j
        allow == AllowedDropPerStep(a.pump_start_psi)
        drops == BuildSeq(LAMBDA k : BlockDrop(p15, blocks[k]), 1, nblocks)
        ok_by_block == \A k \in 1..nblocks : WithinAllowed(drops[k], allow)
        total_drop == SeqMax(p15) - SeqMin(p15)
        rate_positive == spec.duration_min > 0 /\ total_drop > 0
        has_estimate == ~IsNone(a.pump_stop_psi) /\ rate_positive
        pump_band == Max(Val(a.pump_stop_psi) - a.pump_start_psi, 0) * 10
        \* estimated_interval_min = pump_band * duration_min / total_drop
        interval_below(limit_min) == pump_band * spec.duration_min < limit_min * total_drop
        dubious == \E k \in 1..nblocks : Dubious(drops[k], allow, spec.dubious_fraction_of_limit)
        details == [ drops |-> drops, allowed |-> allow, blocks |-> blocks,
                     has_estimate |-> has_estimate, total_drop |-> total_drop ]
    IN IF short # {}
       THEN Verdict(FALSE, "insufficient_samples_in_block",
                    [block |-> first_short - 1, n |-> Len(blocks[first_short])])
       ELSE IF /\ ok_by_block
               /\ spec.extend_if_dubious
               /\ dubious
               /\ has_estimate
               /\ interval_below(spec.min_required_pump_interval_h * 60)
       THEN Verdict(FALSE, "requires_extended_observation_until_pump_interval_above_4h", details)
       ELSE Verdict(ok_by_block, IF ok_by_block THEN "ok" ELSE "drop_exceeds_limit", details)

EvaluateSoakTest(a) ==
    IF Len(a.time_s) # Len(a.acc_pressure_psi)
    THEN Raised("ValueError: time_s and acc_pressure_psi must be 1D arrays with same length")
    ELSE IF Len(a.time_s) = 0
    THEN Raised("IndexError")
    ELSE LET order == IF Unsorted(a.time_s) THEN ArgSort(a.time_s)
                      ELSE BuildSeq(LAMBDA i : i, 1, Len(a.time_s))
             t == BuildSeq(LAMBDA i : a.time_s[order[i]], 1, Len(order))
             p == BuildSeq(LAMBDA i : a.acc_pressure_psi[order[i]], 1, Len(order))
             t_end == t[Len(t)]
             t_start == t_end - a.spec.duration_min * 60
             keep == SelectSeq(BuildSeq(LAMBDA i : i, 1, Len(t)),
                               LAMBDA i : t[i] >= t_start /\ t[i] <= t_end)
             t15 == BuildSeq(LAMBDA i : t[keep[i]], 1, Len(keep))
             p15 == BuildSeq(LAMBDA i : p[keep[i]], 1, Len(keep))
         IN IF t_start < t[1]
            THEN Verdict(FALSE, "insufficient_duration",
                         [required_s |-> a.spec.duration_min * 60, available_s |-> t_end - t[1]])
            ELSE IF a.spec.step_min = 0
            THEN Raised("ZeroDivisionError")
            ELSE SoakVerdict(a, t15, p15, t_start)

---------------------------------------------------------------------------
(* Inputs of evaluate_soak_test *)

\* the longest soak series drawn
MaxSoakSamples == 17

\* base, lowered by d[1], d[2], d[3] from 720 s, 420 s and 120 s before the end
SoakSeries(t, base, d) ==
    LET t_end == t[Len(t)]
        lvl(x) == base - (IF t_end - x <= 720 THEN d[1] ELSE 0)
                       - (IF t_end - x <= 420 THEN d[2] ELSE 0)
                       - (IF t_end - x <= 120 THEN d[3] ELSE 0)
    IN BuildSeq(LAMBDA i : lvl(t[i]), 1, Len(t))

SoakArgs(t, p, start, spec, stop) ==
    [ time_s |-> t, acc_pressure_psi |-> p, pump_start_psi |-> start, spec |-> spec,
      pump_stop_psi |-> stop ]

SoakSteps == {0, 540, 541, 600, 601}

\* one sample a minute for ten minutes, then samples at 12 and 15 minutes
SparseTailGrid == TimeGrid(11, 60) \o <<720, 900>>

SoakInputs ==
    { SoakArgs(TimeGrid(n, dt), SoakSeries(TimeGrid(n, dt), 300000, <<d1, d2, d3>>),
               start, DefaultSoakTestSpec, IF band = 0 THEN NoneV ELSE Some(start + band)) :
        n \in {MaxSoakSamples - 2, MaxSoakSamples - 1, MaxSoakSamples}, dt \in {60, 120},
        d1 \in SoakSteps, d2 \in SoakSteps, d3 \in SoakSteps,
        start \in {27000, 45000, 45996}, band \in {0, 500, 3000} }
    \cup
    { SoakArgs(IF rev THEN Reverse(TimeGrid(n, 60)) ELSE TimeGrid(n, 60),
               IF rev THEN Reverse(SoakSeries(TimeGrid(n, 60), 300000, <<d1, 0, d3>>))
                      ELSE SoakSeries(TimeGrid(n, 60), 300000, <<d1, 0, d3>>),
               27000,
               [DefaultSoakTestSpec EXCEPT !.duration_min = sp[1], !.step_min = sp[2],
                                           !.extend_if_dubious = sp[3]],
               Some(27500)) :
        n \in {0, MaxSoakSamples - 1, MaxSoakSamples}, rev \in BOOLEAN,
        d1 \in SoakSteps, d3 \in SoakSteps,
        sp \in { <<15, 5, FALSE>>, <<15, 4, TRUE>>, <<15, 0, TRUE>>, <<10, 5, TRUE>>,
                 <<0, 5, TRUE>>, <<15, 15, TRUE>>, <<5, 15, TRUE>> } }
    \cup
    { SoakArgs(TimeGrid(MaxSoakSamples, 60), SoakSeries(TimeGrid(MaxSoakSamples - 1, 60), 300000, <<0, 0, 0>>),
               27000, DefaultSoakTestSpec, NoneV) }
    \cup
    { SoakArgs(SparseTailGrid, SoakSeries(SparseTailGrid, 300000, <<d1, d2, 0>>),
               27000, DefaultSoakTestSpec, NoneV) :
        d1 \in SoakSteps, d2 \in SoakSteps }

CallEvaluateSoakTest ==
    /\ op = "init"
    /\ \E a \in SoakInputs :
          /\ op' = "evaluate_soak_test"
          /\ args' = a
          /\ ret' = EvaluateSoakTest(a)
    /\ UNCHANGED <<obj, prev>>

\* pump-start pressures, in tenths of a psi, around the table's keys
PumpStartValues ==
    { v * 10 + o : v \in {0, 2699, 2700, 2701, 4499, 4500, 4501, 4599, 4600, 4601, 4699, 4700, 4701, 9999},
                   o \in 0..9 }

CallAllowedDropPerStep ==
    /\ op = "init"
    /\ \E x \in PumpStartValues :
          /\ op' = "allowed_drop_per_step"
          /\ args' = [pump_start_psi |-> x]
          /\ ret' = AllowedDropPerStep(x)
    /\ UNCHANGED <<obj, prev>>

NextSoak == CallEvaluateSoakTest \/ CallAllowedDropPerStep

SpecSoak == Init /\ [][NextSoak]_vars

---------------------------------------------------------------------------
(* function_test_acceptance.py *)
(* Closing times in tenths of a second, bores in hundredths of an inch,    *)
(* regulator pressures in tenths of a psi.  A key a record does not hold   *)
(* is <<>>.                                                                *)

DefaultFunctionTestSpec ==
    [ max_close_annular_s |-> 600,
      max_close_ram_s |-> 450,
      max_close_annular_surface_small_s |-> 300,
      max_close_annular_surface_large_s |-> 450,
      max_close_ram_surface_s |-> 300,
      max_subsea_kill_choke_valve_time_s |-> 450,
      validate_regulators |-> FALSE,
      regulator_setpoints_psi |-> <<5000, 10000, 15000, 30000>>,
      regulator_min_allowed_psi |-> 7000,
      regulator_max_allowed_psi |-> 28000 ]

\* str(x).lower() on the strings drawn
Lower(x) ==
    CASE x = "Annular" -> "annular"
      [] x = "RAM" -> "ram"
      [] x = "Surface" -> "surface"
      [] x = "SUBSEA" -> "subsea"
      [] x = "Kill" -> "kill"
      [] OTHER -> x

\* record.get(key, default)
Get(x, default) == IF IsNone(x) THEN default ELSE Val(x)

AnnularLimit(record, spec) ==
    LET env == Lower(Get(record.environment, "subsea"))
        bore_in == Get(record.bore_in, 1875)
    IN IF env = "surface"
       THEN IF bore_in >= 1875 THEN spec.max_close_annular_surface_large_s
            ELSE spec.max_close_annular_surface_small_s
       ELSE spec.max_close_annular_s

RamLimit(record, spec) ==
    LET env == Lower(Get(record.environment, "subsea"))
    IN IF env = "surface" THEN spec.max_close_ram_surface_s ELSE spec.max_close_ram_s

ExceedsLimitOrEqual(t_close, limit) == t_close >= limit

\* t_close > limit
ExceedsLimit(t_close, limit) == t_close > limit

\* the failures one record adds to fails
RecordFails(r, spec) ==
    LET typ == Lower(Get(r.type, ""))
        limit == IF typ = "annular" THEN AnnularLimit(r, spec) ELSE RamLimit(r, spec)
        env == Lower(Get(r.environment, "subsea"))
        service == Lower(Get(r.service, ""))
        vlimit == spec.max_subsea_kill_choke_valve_time_s
        metric(key, x) == IF ~IsNone(x) /\ ExceedsLimit(Val(x), vlimit)
                          THEN << [name |-> r.name, type |-> typ, service |-> service,
                                   metric |-> key, time_s |-> Val(x), limit_s |-> vlimit] >>
                          ELSE <<>>
    IN IF typ \in {"annular", "ram"}
       THEN IF IsNone(r.close_time_s)
            THEN << [name |-> r.name, type |-> typ, reason |-> "missing_close_time_s"] >>
            ELSE IF ExceedsLimit(Val(r.close_time_s), limit)
            THEN << [name |-> r.name, type |-> typ, close_time_s |-> Val(r.close_time_s),
                     limit_s |-> limit] >>
            ELSE <<>>
       ELSE IF typ = "valve" /\ env = "subsea" /\ service \in {"kill", "choke", "kiv", "civ"}
       THEN metric("close_time_s", r.close_time_s) \o metric("open_time_s", r.open_time_s)
       ELSE <<>>

RECURSIVE ClosingFails(_, _, _)
ClosingFails(records, spec, i) ==
    IF i > Len(records) THEN <<>>
    ELSE RecordFails(records[i], spec) \o ClosingFails(records, spec, i + 1)

\* abs(float(r.get("setpoint_psi", -1e9)) - target) <= tol_psi
Covers(r, target) == ~IsNone(r.setpoint_psi) /\ Abs(Val(r.setpoint_psi) - target) <= 250

EvaluateRegulators(regulator_records, spec) ==
    LET setpoints == spec.regulator_setpoints_psi
        n == Len(regulator_records)
        covered(target) == \E i \in 1..n : Covers(regulator_records[i], target)
        missing == SelectSeq(setpoints, LAMBDA target : ~covered(target))
        missing_fails == BuildSeq(LAMBDA j : [type |-> "missing_regulator_setpoint",
                                              setpoint_psi |-> missing[j]], 1, Len(missing))
        low == {i \in 1..n : Covers(regulator_records[i], SeqMin(setpoints))}
        high == {i \in 1..n : Covers(regulator_records[i], SeqMax(setpoints))}
        meas(i) == Val(regulator_records[i].measured_psi)
        low_measured == CHOOSE v \in {meas(i) : i \in low} : \A i \in low : v <= meas(i)
        high_measured == CHOOSE v \in {meas(i) : i \in high} : \A i \in high : v >= meas(i)
        low_fails == IF low # {} /\ low_measured > spec.regulator_min_allowed_psi
                     THEN << [type |-> "regulator_min_pressure_too_high",
                              measured_psi |-> low_measured] >>
                     ELSE <<>>
        high_fails == IF high # {} /\ high_measured < spec.regulator_max_allowed_psi
                      THEN << [type |-> "regulator_max_pressure_too_low",
                               measured_psi |-> high_measured] >>
                      ELSE <<>>
        fails == missing_fails \o low_fails \o high_fails
    IN IF n = 0
       THEN [raised |-> FALSE, ok |-> TRUE, fails |-> <<>>, covered_setpoints_psi |-> <<>>]
       ELSE IF Len(setpoints) = 0
       THEN Raised("ValueError: min() arg is an empty sequence")
       ELSE IF \E i \in low \cup high : IsNone(regulator_records[i].measured_psi)
       THEN Raised("TypeError: float() argument must be a string or a number")
       ELSE [ raised |-> FALSE, ok |-> Len(fails) = 0, fails |-> fails,
              covered_setpoints_psi |-> SelectSeq(setpoints, covered) ]

\* the top-level reason as it would be if a failure of both checks were
\* reported as a closing-time failure
ClosingReasonMerged(has_fails, regulator_ok) ==
    IF ~has_fails /\ regulator_ok THEN "ok"
    ELSE IF has_fails THEN "closing_time_exceeds_limit"
    ELSE "regulator_criteria_not_met"

ClosingReasonRenamed(has_fails, regulator_ok) ==
    IF ~has_fails /\ regulator_ok THEN "ok"
    ELSE IF has_fails /\ regulator_ok THEN "closing_time_exceeded"
    ELSE IF ~has_fails /\ ~regulator_ok THEN "regulator_criteria_not_met"
    ELSE "closing_time_and_regulator_criteria_not_met"

\* the top-level reason of evaluate_closing_times
ClosingReason(has_fails, regulator_ok) ==
    IF ~has_fails /\ regulator_ok THEN "ok"
    ELSE IF has_fails /\ regulator_ok THEN "closing_time_exceeds_limit"
    ELSE IF ~has_fails /\ ~regulator_ok THEN "regulator_criteria_not_met"
    ELSE "closing_time_and_regulator_criteria_not_met"

\* bool(spec.validate_regulators) or regulator_records is not None
MustValidateRegulators(a) == a.spec.validate_regulators \/ ~IsNone(a.regulator_records)

EvaluateClosingTimes(a) ==
    LET fails == ClosingFails(a.records, a.spec, 1)
        regulator_eval ==
            IF MustValidateRegulators(a)
            THEN EvaluateRegulators(Get(a.regulator_records, <<>>), a.spec)
            ELSE [raised |-> FALSE, ok |-> TRUE, fails |-> <<>>, covered_setpoints_psi |-> <<>>]
        ok == Len(fails) = 0 /\ regulator_eval.ok
    IN IF regulator_eval.raised THEN regulator_eval
       ELSE Verdict(ok, ClosingReason(Len(fails) # 0, regulator_eval.ok),
                    [fails |-> fails, regulator |-> regulator_eval])

---------------------------------------------------------------------------
(* Inputs of evaluate_closing_times *)

\* the longest list of closing-time records drawn
MaxRecords == 2

Rec(name, type, close, open, env, bore, service) ==
    [ name |-> name, type |-> type, close_time_s |-> close, open_time_s |-> open,
      environment |-> env, bore_in |-> bore, service |-> service ]

Environments == {NoneV, Some("subsea"), Some("SUBSEA"), Some("surface"), Some("Surface")}

FirstRecords ==
    { Rec(1, Some(typ), close, NoneV, env, bore, NoneV) :
        typ \in {"annular", "Annular", "ram", "RAM"}, env \in Environments,
        bore \in {NoneV, Some(1874), Some(1875)},
        close \in {NoneV, Some(300), Some(301), Some(450), Some(451), Some(600), Some(601), Some(610)} }
    \cup
    { Rec(1, Some("valve"), close, open, env, NoneV, service) :
        env \in {NoneV, Some("surface")}, service \in {NoneV, Some("Kill"), Some("civ"), Some("production")},
        close \in {NoneV, Some(450), Some(451)}, open \in {NoneV, Some(450), Some(451)} }
    \cup
    { Rec(1, NoneV, Some(900), NoneV, NoneV, NoneV, NoneV),
      Rec(1, Some("pump"), Some(900), NoneV, NoneV, NoneV, NoneV) }

\* the records that follow the first one, named by their position
LaterRecords(i) ==
    { Rec(i, Some("annular"), Some(600), NoneV, NoneV, NoneV, NoneV),
      Rec(i, Some("ram"), Some(451), NoneV, Some("subsea"), NoneV, NoneV),
      Rec(i, Some("ram"), NoneV, NoneV, Some("surface"), NoneV, NoneV) }

RECURSIVE Tails(_, _)
Tails(i, last) ==
    IF i > last THEN {<<>>}
    ELSE {<<>>} \cup { <<r>> \o tl : r \in LaterRecords(i), tl \in Tails(i + 1, last) }

RecordLists == {<<>>} \cup { <<r>> \o tl : r \in FirstRecords, tl \in Tails(2, MaxRecords) }

Reg(setpoint, measured) == [setpoint_psi |-> setpoint, measured_psi |-> measured]

\* one regulator record per setpoint, at an offset from it (<<>>: no record)
RegulatorLists ==
    { (IF IsNone(o1) THEN <<>> ELSE <<Reg(Some(5000 + Val(o1)), Some(lo))>>)
      \o (IF o2 THEN <<Reg(Some(10000), NoneV)>> ELSE <<>>)
      \o (IF o3 THEN <<Reg(Some(15000), Some(15000))>> ELSE <<>>)
      \o (IF IsNone(o4) THEN <<>> ELSE <<Reg(Some(30000 - Val(o4)), Some(hi))>>) :
        o1 \in {NoneV, Some(250), Some(251)}, o2 \in BOOLEAN, o3 \in BOOLEAN,
        o4 \in {NoneV, Some(250), Some(251)}, lo \in {7000, 7001}, hi \in {27999, 28000} }
    \cup
    { <<Reg(Some(5000), NoneV)>>, <<Reg(NoneV, Some(5000))>>,
      <<Reg(Some(5000), Some(7500)), Reg(Some(4900), Some(6900)), Reg(Some(10000), NoneV),
        Reg(Some(15000), NoneV), Reg(Some(30100), Some(27000)), Reg(Some(29900), Some(28100))>> }

FunctionArgs(records, spec, regulator_records) ==
    [records |-> records, spec |-> spec, regulator_records |-> regulator_records]

FunctionInputs ==
    { FunctionArgs(rs, [DefaultFunctionTestSpec EXCEPT !.validate_regulators = v], NoneV) :
        rs \in RecordLists, v \in BOOLEAN }
    \cup
    { FunctionArgs(rs, [DefaultFunctionTestSpec EXCEPT !.validate_regulators = v], Some(regs)) :
        rs \in {<<>>} \cup { <<r>> : r \in LaterRecords(1) }, v \in BOOLEAN, regs \in RegulatorLists }
    \cup
    { FunctionArgs(<<>>, [DefaultFunctionTestSpec EXCEPT !.regulator_setpoints_psi = <<>>], regs) :
        regs \in {NoneV, Some(<<>>), Some(<<Reg(Some(5000), Some(7000))>>)} }

CallEvaluateClosingTimes ==
    /\ op = "init"
    /\ \E a \in FunctionInputs :
          /\ op' = "evaluate_closing_times"
          /\ args' = a
          /\ ret' = EvaluateClosingTimes(a)
    /\ UNCHANGED <<obj, prev>>

NextFunction == CallEvaluateClosingTimes

SpecFunction == Init /\ [][NextFunction]_vars

---------------------------------------------------------------------------
(* pe_acceptance.py *)
(* delta_p_percent is kept exact, as the fraction num / den; a threshold   *)
(* is given in hundredths of a percent.                                    *)

\* dp <= max_drop_percent
WithinMaxDropStrict(dp, max_drop_percent) ==
    IF dp.den > 0 THEN dp.num * 100 < max_drop_percent * dp.den
    ELSE dp.num * 100 > max_drop_percent * dp.den

WithinMaxDrop(dp, max_drop_percent) ==
    IF dp.den > 0 THEN dp.num * 100 <= max_drop_percent * dp.den
    ELSE dp.num * 100 >= max_drop_percent * dp.den

\* the samples t >= t_end - window_s, or all of them when there is none
HoldMaskWholeSeries(t, window_s) == BuildSeq(LAMBDA i : i, 1, Len(t))

HoldMask(t, window_s) ==
    LET all == BuildSeq(LAMBDA i : i, 1, Len(t))
        sel == SelectSeq(all, LAMBDA i : t[i] >= t[Len(t)] - window_s)
    IN IF Len(sel) = 0 THEN all ELSE sel

\* dp = (p0 - pend) / p0 * 100.0
DeltaPPercent(p0, pend) ==
    LET g == GCD(Abs((p0 - pend) * 100), Abs(p0))
    IN [num |-> ((p0 - pend) * 100) \div g, den |-> p0 \div g]

AcceptanceHoldDrop(a) ==
    LET mask == HoldMask(a.t, a.window_s)
        p0 == a.p[mask[1]]
        pend == a.p[mask[Len(mask)]]
        dp == DeltaPPercent(p0, pend)
        legacy == WithinMaxDrop(dp, a.max_drop_percent)
        result == EvaluatePressureTest(
                     PressureArgs(a.t, a.p,
                                  DefaultPressureTestSpec(IF a.mode \in {"high", "HIGH"} THEN "high" ELSE "low"),
                                  a.designated_pressure_psi, a.rwp_psi, a.pressure_unit, 11, FALSE,
                                  NoneV, NoneV, NoneV))
    IN IF Len(a.t) = 0 THEN Raised("IndexError")
       ELSE IF Len(a.p) # Len(a.t) THEN Raised("IndexError")
       ELSE IF p0 = 0 THEN Raised("ZeroDivisionError")
       ELSE IF ~a.use_petrobras_logic
       THEN [raised |-> FALSE, delta_p_percent |-> dp, pass |-> legacy]
       ELSE IF result.raised THEN result
       ELSE [raised |-> FALSE, delta_p_percent |-> dp, pass |-> legacy /\ result.ok,
             petrobras |-> result]

---------------------------------------------------------------------------
(* Inputs of acceptance_hold_drop *)

\* the longest of the short hold series drawn
MaxHoldSamples == 3

\* np.linspace(a, b, n) for a >= b
LinSpace(a, b, n) == BuildSeq(LAMBDA i : a - MulDiv(a - b, i - 1, n - 1), 1, n)

RECURSIVE SeqsOver(_, _)
SeqsOver(S, n) == IF n = 0 THEN {<<>>} ELSE { <<x>> \o tl : x \in S, tl \in SeqsOver(S, n - 1) }

HoldArgs(t, p, window_s, max_drop_percent, petrobras, unit, mode) ==
    [ t |-> t, p |-> p, window_s |-> window_s, max_drop_percent |-> max_drop_percent,
      use_petrobras_logic |-> petrobras, pressure_unit |-> unit, mode |-> mode,
      designated_pressure_psi |-> NoneV, rwp_psi |-> NoneV ]

HoldInputs ==
    { HoldArgs(TimeGrid(Len(p), 100), p, w, m, pb, "pa", "high") :
        p \in UNION { SeqsOver({0, 19800, 19900, 20000, 20200}, k) : k \in 0..MaxHoldSamples },
        w \in {0 - 1, 100, 300}, m \in {50, 100}, pb \in BOOLEAN }
    \cup
    { HoldArgs(TimeGrid(601, 1), LinSpace(20000000, e, 601), w, 100, pb, "pa", mode) :
        e \in {19800000, 19799999, 19600000}, w \in {300, 599, 600}, pb \in BOOLEAN,
        mode \in {"high", "low"} }
    \cup
    { HoldArgs(TimeGrid(3, 100), <<20000, 19900>>, 300, 100, FALSE, "pa", "high") }

CallAcceptanceHoldDrop ==
    /\ op = "init"
    /\ \E a \in HoldInputs :
          /\ op' = "acceptance_hold_drop"
          /\ args' = a
          /\ ret' = AcceptanceHoldDrop(a)
    /\ UNCHANGED <<obj, prev>>

NextHold == CallAcceptanceHoldDrop

SpecHold == Init /\ [][NextHold]_vars

---------------------------------------------------------------------------
(* COMPONENTS/valve.py *)
(* Units: pressure and stress Pa, density kg/m3, lengths nm (1e-9 m),      *)
(* area mm2, opening, gains and alpha in thousandths, the inertia /        *)
(* dissipation ratio in 1e-9, cd in hundredths; a flow in mm3/s            *)
(* (1e-9 m3/s), rounded toward zero.                                       *)

DefaultValveParams ==
    [ name |-> "V1",
      cd |-> 62,
      area_m2 |-> 100,
      min_opening |-> 0,
      max_opening |-> 1000,
      min_delta_p_pa |-> 0,
      yield_stress_pa |-> 0,
      hydraulic_diameter_m |-> 10000000,
      equivalent_length_m |-> 1000000000,
      transmission_gain |-> 1000,
      inertia_dissipation_ratio |-> 1000000000,
      attenuation_alpha |-> 0,
      allow_reverse_flow |-> FALSE,
      reverse_flow_gain |-> 1000 ]

\* the largest r with r * r <= n
RECURSIVE SqrtSearch(_, _, _)
SqrtSearch(n, lo, hi) ==
    IF lo >= hi THEN lo
    ELSE LET mid == (lo + hi + 1) \div 2
         IN IF mid <= n \div mid THEN SqrtSearch(n, mid, hi) ELSE SqrtSearch(n, lo, mid - 1)

ISqrt(n) == IF n <= 0 THEN 0 ELSE SqrtSearch(n, 0, Min(n, 46340))

\* 1000 * exp(-k / 10), k = 0 .. 70
ExpTable ==
    << 1000, 905, 819, 741, 670, 607, 549, 497, 449, 407,
       368, 333, 301, 273, 247, 223, 202, 183, 165, 150,
       135, 122, 111, 100, 91, 82, 74, 67, 61, 55,
       50, 45, 41, 37, 33, 30, 27, 25, 22, 20,
       18, 17, 15, 14, 12, 11, 10, 9, 8, 7,
       7, 6, 6, 5, 5, 4, 4, 3, 3, 3,
       2, 2, 2, 2, 2, 2, 1, 1, 1, 1,
       1 >>

\* 1000 * exp(-x), x = num / den >= 0, x cut to tenths
ExpNeg(num, den) ==
    LET g == GCD(num, den)
        k == MulDiv(10, num \div g, den \div g)
    IN IF k + 1 > Len(ExpTable) THEN 0 ELSE ExpTable[k + 1]

\* max(d, 1e-9), max(l, 1e-9), reduced by their common divisor
TubeLengths(P) ==
    LET d == Max(P.hydraulic_diameter_m, 1)
        l == Max(P.equivalent_length_m, 1)
        g == GCD(d, l)
    IN [d |-> d \div g, l |-> l \div g]

YieldDeltaPThresholdPa(P) ==
    IF P.yield_stress_pa <= 0 THEN 0
    ELSE LET tl == TubeLengths(P)
         IN MulDiv(4 * P.yield_stress_pa, tl.l, tl.d)

RawDeltaPUnfloored(P, p_up_pa, p_dn_pa) == p_up_pa - p_dn_pa

\* raw_dP, floored at zero unless reverse flow is allowed
RawDeltaP(P, p_up_pa, p_dn_pa) ==
    IF ~P.allow_reverse_flow THEN Max(p_up_pa - p_dn_pa, 0) ELSE p_up_pa - p_dn_pa

ClampOpeningAboveZero(P, opening) == Clip(opening, Max(P.min_opening, 1), P.max_opening)

\* opening clamped to [min_opening, max_opening]
ClampOpening(P, opening) == Clip(opening, P.min_opening, P.max_opening)

\* A = area_m2 * opening, in 1e-9 m2
EffectiveArea(P, opening) == P.area_m2 * opening

\* max(min_delta_p_pa, yield threshold)
BlockingThreshold(P) == Max(P.min_delta_p_pa, YieldDeltaPThresholdPa(P))

\* cd * A * sqrt(2 * dP_effective / rho): sqrt in cm/s, A in 1e-9 m2
OrificeFlow(P, A, dP_effective, rho) ==
    MulDiv(P.cd * A, ISqrt(MulDiv(2 * dP_effective, 10000, rho)), 10000)

\* with bingham_like taken as tau_w / tau0
AttenuationInverted(P, dP) ==
    LET tl == TubeLengths(P)
        g == GCD(dP, 4 * tl.l)
        tw_num == (dP \div g) * tl.d
        tw_den == (4 * tl.l) \div g
        lambda_ratio == Max(P.inertia_dissipation_ratio, 1)
        g1 == GCD(P.attenuation_alpha * 1000000, lambda_ratio)
        a_num == (P.attenuation_alpha * 1000000) \div g1
        a_den == lambda_ratio \div g1
    IN ExpNeg(a_num * tw_num, a_den * tw_den * P.yield_stress_pa)

\* exp(-alpha * bingham_like / lambda_ratio) in thousandths;
\* tau_w = dP * d / (4 * l), bingham_like = tau0 / max(tau_w, 1e-9)
Attenuation(P, dP) ==
    LET tl == TubeLengths(P)
        g == GCD(dP, 4 * tl.l)
        tw_num == (dP \div g) * tl.d
        tw_den == (4 * tl.l) \div g
        floored == tw_num < 3 /\ tw_num * 1000000000 < tw_den
        b_num == IF floored THEN P.yield_stress_pa * 1000000000 ELSE P.yield_stress_pa * tw_den
        b_den == IF floored THEN 1 ELSE tw_num
        lambda_ratio == Max(P.inertia_dissipation_ratio, 1)
        g1 == GCD(P.attenuation_alpha * 1000000, lambda_ratio)
        g2 == GCD(b_num, b_den)
        a_num == (P.attenuation_alpha * 1000000) \div g1
        a_den == lambda_ratio \div g1
        g3 == GCD(a_num, b_den \div g2)
        g4 == GCD(b_num \div g2, a_den)
    IN ExpNeg((a_num \div g3) * ((b_num \div g2) \div g4), (a_den \div g4) * ((b_den \div g2) \div g3))

\* the gain applied to the orifice flow, in thousandths
FlowGain(P, direction, dP) ==
    LET g0 == Clip(P.transmission_gain, 0, 1000)
        g1 == IF direction < 0 THEN MulDiv(g0, Max(P.reverse_flow_gain, 0), 1000) ELSE g0
    IN IF P.attenuation_alpha > 0 /\ P.yield_stress_pa > 0
       THEN MulDiv(g1, Attenuation(P, dP), 1000)
       ELSE g1

\* flow_m3s as it would be if the threshold only gated the flow and the
\* orifice equation took the whole differential
FlowM3sThresholdAsGate(P, p_up_pa, p_dn_pa, rho, opening) ==
    LET o == ClampOpening(P, opening)
        raw_dP == RawDeltaP(P, p_up_pa, p_dn_pa)
        direction == Sign(raw_dP)
        dP == Abs(raw_dP)
        A == EffectiveArea(P, o)
        dP_effective == Max(dP - BlockingThreshold(P), 0)
        q == OrificeFlow(P, A, dP, rho)
    IN IF dP <= 0 \/ A <= 0 \/ direction = 0 THEN 0
       ELSE IF dP_effective <= 0 THEN 0
       ELSE direction * MulDiv(q, FlowGain(P, direction, dP), 1000)

FlowM3s(P, p_up_pa, p_dn_pa, rho, opening) ==
    LET o == ClampOpening(P, opening)
        raw_dP == RawDeltaP(P, p_up_pa, p_dn_pa)
        direction == Sign(raw_dP)
        dP == Abs(raw_dP)
        A == EffectiveArea(P, o)
        dP_effective == Max(dP - BlockingThreshold(P), 0)
        q == OrificeFlow(P, A, dP_effective, rho)
    IN IF dP <= 0 \/ A <= 0 \/ direction = 0 THEN 0
       ELSE IF dP_effective <= 0 THEN 0
       ELSE direction * MulDiv(q, FlowGain(P, direction, dP), 1000)

---------------------------------------------------------------------------
(* A valve and the calls made on it *)

ValveParamSets ==
    { [DefaultValveParams EXCEPT !.min_opening = mo,
                                 !.allow_reverse_flow = rv[1], !.reverse_flow_gain = rv[2],
                                 !.min_delta_p_pa = bl[1], !.yield_stress_pa = bl[2],
                                 !.attenuation_alpha = bl[3],
                                 !.transmission_gain = tg] :
        mo \in {0, 100},
        rv \in { <<FALSE, 1000>>, <<TRUE, 1000>>, <<TRUE, 500>> },
        bl \in { <<0, 0, 0>>, <<120000, 0, 0>>, <<0, 250, 0>>, <<0, 250, 2000>> },
        tg \in {500, 1000} }

ValvePressures == {100000, 250000, 20700000}

\* differentials at and just around the blocking thresholds drawn
NearThresholdPressures == { <<200000, 100000>>, <<220000, 100000>>, <<100000, 220000>> }

FlowInputs ==
    { [p_up_pa |-> pu, p_dn_pa |-> pd, rho |-> 1000, opening |-> o] :
        pu \in ValvePressures, pd \in ValvePressures, o \in {0, 300, 1000, 1200} }
    \cup
    { [p_up_pa |-> pp[1], p_dn_pa |-> pp[2], rho |-> 1000, opening |-> 1000] :
        pp \in NearThresholdPressures }

NewOrificeValve ==
    /\ op = "init"
    /\ \E P \in ValveParamSets :
          /\ op' = "OrificeValve"
          /\ obj' = P
    /\ UNCHANGED <<args, ret, prev>>

\* a call of flow_m3s; prev keeps the call before it.  Two calls on one
\* valve are enough to compare any two flows.
CallFlowM3s ==
    /\ op = "OrificeValve" \/ (op = "flow_m3s" /\ Len(prev) = 0)
    /\ \E a \in FlowInputs :
          /\ op' = "flow_m3s"
          /\ args' = a
          /\ ret' = FlowM3s(obj, a.p_up_pa, a.p_dn_pa, a.rho, a.opening)
          /\ prev' = IF op = "flow_m3s" THEN <<[args |-> args, ret |-> ret]>> ELSE <<>>
    /\ UNCHANGED obj

NextValve == NewOrificeValve \/ CallFlowM3s

SpecValve == Init /\ [][NextValve]_vars

---------------------------------------------------------------------------
(* bop_hydraulic.py, commands.py: pressures in Pa, times in ms, rho in
   kg/m3, bulk_modulus in kPa, volumes in 1e-9 m3, CdA_leak_m2 in 1e-9 m2,
   gas_volume_fraction in percent, compliances in 1e-12 m3/Pa,
   line_resistance_pa_s_per_m3 in 1e9 Pa s/m3, openings in thousandths,
   flows in mm3/s, derivatives in kPa/s *)

\* x * a = q * b + r with 0 <= r < b, for x, a >= 0, without a product
\* past 2^31
RECURSIVE MulDivQR(_, _, _)
MulDivQR(x, a, b) ==
    IF a = 0 THEN [q |-> 0, r |-> 0]
    ELSE LET h == MulDivQR(x, a \div 2, b)
             q2 == 2 * h.q + (2 * h.r) \div b
             r2 == (2 * h.r) % b
             r3 == r2 + (x % b)
         IN IF a % 2 = 0 THEN [q |-> q2, r |-> r2]
            ELSE [q |-> q2 + x \div b + r3 \div b, r |-> r3 % b]

\* x * a / b, toward zero
Quotient(x, a, b) == Sign(x) * MulDivQR(Abs(x), a, b).q

DefaultHydraulicParams ==
    [ rho |-> 1000,
      bulk_modulus |-> 1500000,
      V_acc_eff_m3 |-> 20000000,
      V_act_m3 |-> 5000000,
      p_atm_pa |-> 100000,
      CdA_leak_m2 |-> 0,
      gas_volume_fraction |-> 0,
      V_acc_line_m3 |-> 0,
      V_act_line_m3 |-> 0,
      acc_structure_compliance_m3_per_pa |-> 0,
      act_structure_compliance_m3_per_pa |-> 0,
      line_resistance_pa_s_per_m3 |-> 0 ]

\* step_opening(t_step, level), pulse_opening(t_on, t_off, level) and the
\* default lambda t: 1.0, as data
StepOpening(t_step, level) == [kind |-> "step", t_step |-> t_step, level |-> level]
PulseOpening(t_on, t_off, level) == [kind |-> "pulse", t_on |-> t_on, t_off |-> t_off, level |-> level]
FullOpening == [kind |-> "const", level |-> 1000]

\* opening_fun(t)
OpeningAt(f, t) ==
    IF f.kind = "step" THEN (IF t >= f.t_step THEN f.level ELSE 0)
    ELSE IF f.kind = "pulse" THEN (IF t >= f.t_on /\ t < f.t_off THEN f.level ELSE 0)
    ELSE f.level

\* BOPHydraulicMVP(hp, valve, opening_fun)
NewNetwork(hp, valve, opening_fun) ==
    [hp |-> hp, valve |-> valve,
     opening_fun |-> IF IsNone(opening_fun) THEN FullOpening ELSE Val(opening_fun)]

LeakFlowThroughHealthySeal(net, p_act_pa) ==
    LET dP == Max(p_act_pa - net.hp.p_atm_pa, 0)
    IN IF dP <= 0 THEN 0
       ELSE MulDiv(Max(net.hp.CdA_leak_m2, 500), ISqrt(MulDiv(2 * dP, 10000, net.hp.rho)), 100)

LeakFlowM3s(net, p_act_pa) ==
    LET dP == Max(p_act_pa - net.hp.p_atm_pa, 0)
    IN IF net.hp.CdA_leak_m2 <= 0 THEN 0
       ELSE IF dP <= 0 THEN 0
       ELSE MulDiv(net.hp.CdA_leak_m2, ISqrt(MulDiv(2 * dP, 10000, net.hp.rho)), 100)

\* in kPa; inv_beta_eff in 1e-12 / Pa, where the values drawn keep it
\* above the 1e-18 / Pa floor
EffectiveBulkModulusPa(net, p_node_pa) ==
    LET beta_liq == Max(net.hp.bulk_modulus, 1)
        phi == Clip(net.hp.gas_volume_fraction, 0, 95)
        p_abs == Max(p_node_pa \div 1000, 10)
        inv_beta_eff == ((100 - phi) * 10000000) \div beta_liq + (phi * 10000000) \div p_abs
    IN IF phi <= 0 THEN beta_liq
       ELSE 1000000000 \div Max(inv_beta_eff, 1)

NodeCapacitanceUnfloored(net, node_volume_m3, p_node_pa, structural_compliance_m3_per_pa) ==
    LET beta_eff == EffectiveBulkModulusPa(net, p_node_pa)
    IN [num |-> node_volume_m3 + structural_compliance_m3_per_pa * beta_eff, den |-> beta_eff]

\* the capacitance num / den in 1e-12 m3/Pa, floored at 1e-15 m3/Pa
NodeCapacitanceM3PerPa(net, node_volume_m3, p_node_pa, structural_compliance_m3_per_pa) ==
    LET beta_eff == EffectiveBulkModulusPa(net, p_node_pa)
        den == Max(beta_eff, 1)
        struct_cap == Max(structural_compliance_m3_per_pa, 0)
        num == Max(node_volume_m3, 1) + struct_cap * den
    IN IF num <= (den - 1) \div 1000 THEN [num |-> 1, den |-> 1000]
       ELSE [num |-> num, den |-> den]

ApplyLineResistanceLimit(net, q_m3s, dP_pa) ==
    LET r_line == net.hp.line_resistance_pa_s_per_m3
        q_limit == Abs(dP_pa) \div r_line
    IN IF r_line <= 0 THEN q_m3s
       ELSE Sign(q_m3s) * Min(Abs(q_m3s), q_limit)

\* C_acc and C_act of rhs
AccCapacitance(net, y) ==
    NodeCapacitanceM3PerPa(net, net.hp.V_acc_eff_m3 + net.hp.V_acc_line_m3, y[1],
                           net.hp.acc_structure_compliance_m3_per_pa)
ActCapacitance(net, y) ==
    NodeCapacitanceM3PerPa(net, net.hp.V_act_m3 + net.hp.V_act_line_m3, y[2],
                           net.hp.act_structure_compliance_m3_per_pa)

\* the flow through the valve and the line in rhs
LineFlow(net, t, y) ==
    ApplyLineResistanceLimit(net,
        FlowM3s(net.valve, y[1], y[2], net.hp.rho, OpeningAt(net.opening_fun, t)),
        y[1] - y[2])

\* BOPHydraulicMVP.rhs: [dPacc_dt, dPact_dt]
Rhs(net, t, y) ==
    LET Q == LineFlow(net, t, y)
        Q_leak == LeakFlowM3s(net, y[2])
        C_acc == AccCapacitance(net, y)
        C_act == ActCapacitance(net, y)
    IN << Quotient(0 - Q, C_acc.den, C_acc.num), Quotient(Q - Q_leak, C_act.den, C_act.num) >>

RhsEffectKeepsOpening(net, t, y) ==
    [net EXCEPT !.valve.min_opening = OpeningAt(net.opening_fun, t)]

\* the network after a call of rhs: rhs assigns to locals only
RhsEffect(net, t, y) == net

---------------------------------------------------------------------------
(* A network and the calls made on it *)

\* parameter objects of a working network
WorkingHydraulicParams ==
    { [DefaultHydraulicParams EXCEPT !.CdA_leak_m2 = lk,
                                     !.gas_volume_fraction = g[1],
                                     !.V_act_line_m3 = g[2],
                                     !.act_structure_compliance_m3_per_pa = g[3],
                                     !.line_resistance_pa_s_per_m3 = r] :
        lk \in {0, 500}, g \in { <<0, 0, 0>>, <<5, 1000000, 5>> }, r \in {0, 4} }

\* parameter objects with values outside the physical range, which
\* LumpedHydraulicParams accepts as it has no __post_init__
DegenerateHydraulicParams ==
    { [DefaultHydraulicParams EXCEPT !.bulk_modulus = d[1],
                                     !.V_acc_eff_m3 = d[2],
                                     !.V_act_m3 = d[3],
                                     !.gas_volume_fraction = d[4],
                                     !.acc_structure_compliance_m3_per_pa = d[5]] :
        d \in { <<0, 20000000, 5000000, 0, 0>>,
                <<-1500000, 20000000, 5000000, 100, 0>>,
                <<1500000, 0, 5000000, 0, 0>>,
                <<1500000, 20000000, -5000000, 0, 0>>,
                <<1500000, 0, 0, -5, -5>>,
                <<2000000, 1, 1, 0, 0>> } }

Networks ==
    { NewNetwork(hp, v, f) :
        hp \in WorkingHydraulicParams,
        v \in { DefaultValveParams, [DefaultValveParams EXCEPT !.allow_reverse_flow = TRUE] },
        f \in { NoneV, Some(StepOpening(2000, 1000)) } }
    \cup { NewNetwork(hp, DefaultValveParams, Some(StepOpening(2000, 0))) :
             hp \in DegenerateHydraulicParams }

RhsInputs ==
    { [t |-> t, y |-> y] :
        t \in {0, 2000},
        y \in { <<20700000, 100000>>, <<100000, 20700000>>, <<0, -100000>>,
                <<10000000, 10000000>> } }

NewBOPHydraulicMVP ==
    /\ op = "init"
    /\ \E net \in Networks :
          /\ op' = "BOPHydraulicMVP"
          /\ obj' = net
    /\ UNCHANGED <<args, ret, prev>>

\* a call of rhs; prev keeps the calls before it, with the network each
\* one was made on
CallRhs ==
    /\ op = "BOPHydraulicMVP" \/ (op = "rhs" /\ Len(prev) < 2)
    /\ \E a \in RhsInputs :
          /\ op' = "rhs"
          /\ args' = a
          /\ ret' = Rhs(obj, a.t, a.y)
          /\ obj' = RhsEffect(obj, a.t, a.y)
          /\ prev' = IF op = "rhs"
                     THEN Append(prev, [args |-> args, ret |-> ret, obj |-> obj])
                     ELSE <<>>

CallNodeCapacitance ==
    /\ op = "BOPHydraulicMVP"
    /\ \E v \in {-5, 0, 1, 5000000}, pn \in {-100000, 0, 100000, 20700000}, c \in {-5, 0, 5} :
          /\ op' = "node_capacitance_m3_per_pa"
          /\ args' = [node_volume_m3 |-> v, p_node_pa |-> pn,
                      structural_compliance_m3_per_pa |-> c]
          /\ ret' = NodeCapacitanceM3PerPa(obj, v, pn, c)
    /\ UNCHANGED <<obj, prev>>

NextHydraulic == NewBOPHydraulicMVP \/ CallRhs \/ CallNodeCapacitance

SpecHydraulic == Init /\ [][NextHydraulic]_vars


---------------------------------------------------------------------------
(* ode.py, test_mvp_systems.py: the pressurisation scenario.  integrate_ode
   hands rhs to solve_ivp, an explicit embedded Runge-Kutta pair with step
   size control (rtol = 1e-6): a trial step is accepted when its error
   estimate is below the tolerance, a rejected one is retried with a
   smaller step, and the next step size follows from the estimate (safety
   0.9, factor within [0.2, 10]).  The pair here is Heun's method with the
   Euler step as its error estimator.  Times in us, on a grid of 1 us which
   stands for the solver's smallest step; error estimates in mPa. *)

\* t_span = (0.0, 30.0)
IntegrationEnd == 30000000

\* y0 = [207e5, 1e5]
ScenarioY0 == << 20700000, 100000 >>

\* k * h / b in Pa for a derivative k in kPa/s and a step h in us, cut off
\* at 1e9 Pa
StepDelta(k, h, b) ==
    IF k = 0 THEN 0
    ELSE IF h \div b >= 1000000000 \div Abs(k) THEN Sign(k) * 1000000000
    ELSE Quotient(k, h, b)

\* h * dk / 2 in mPa, cut off at 1e9
ErrorEstimate(h, dk) ==
    IF dk = 0 THEN 0
    ELSE IF h > 2000000000 \div dk THEN 1000000000
    ELSE Min((h * dk) \div 2, 1000000000)

\* 10000 * scale / err, cut off at 1e9
ToleranceRatio(scale, err) ==
    IF scale \div err >= 100000 THEN 1000000000
    ELSE MulDivQR(scale, 10000, err).q

\* the verdict on a trial step that ends at y_new with the error estimates
\* err: accepted when every estimate is below rtol * max(|y|, |y_new|), and
\* the factor (in thousandths) by which the step size changes
TrialVerdict(y, y_new, err) ==
    LET scale == [i \in 1..2 |-> Max(Max(Abs(y[i]), Abs(y_new[i])) \div 1000, 1)]
        ratios == { ToleranceRatio(scale[i], err[i]) : i \in {j \in 1..2 : err[j] > 0} }
        worst == CHOOSE r \in ratios : \A q \in ratios : r <= q
    IN [ y_new |-> y_new,
         accept |-> \A i \in 1..2 : err[i] < scale[i],
         factor |-> IF ratios = {} THEN 10000 ELSE Min(10000, 9 * ISqrt(worst)) ]

\* the trial step from the derivatives k1 at its start and k2 at its end
TrialResult(y, h, k1, k2) ==
    TrialVerdict(y,
                 << y[1] + StepDelta(k1[1] + k2[1], h, 2000),
                    y[2] + StepDelta(k1[2] + k2[2], h, 2000) >>,
                 [i \in 1..2 |-> ErrorEstimate(h, Abs(k2[i] - k1[i]))])

\* the second call of rhs, at the end of the Euler step
TrialCorrector(net, t, y, h, k1) ==
    TrialResult(y, h, k1,
                Rhs(net, (t + h) \div 1000,
                    << y[1] + StepDelta(k1[1], h, 1000), y[2] + StepDelta(k1[2], h, 1000) >>))

\* one trial step of size h from (t, y)
TrialStep(net, t, y, h) == TrialCorrector(net, t, y, h, Rhs(net, t \div 1000, y))

RECURSIVE AcceptedStep(_, _, _, _, _)

\* the accepted trial step ends the step of the solver; a rejected one is
\* followed by a trial with a smaller step
StepOrRetry(net, t, y, h, step_rejected, trial) ==
    IF trial.accept \/ h <= 1
    THEN [t |-> t + h, y |-> trial.y_new,
          h_abs |-> Max(1, MulDiv(h, IF step_rejected THEN Min(1000, trial.factor)
                                     ELSE trial.factor, 1000))]
    ELSE AcceptedStep(net, t, y, Max(1, MulDiv(h, Max(200, trial.factor), 1000)), TRUE)

\* one step of the solver: trial steps from (t, y) until one is accepted
AcceptedStep(net, t, y, h_abs, step_rejected) ==
    StepOrRetry(net, t, y, Min(h_abs, IntegrationEnd - t), step_rejected,
                TrialStep(net, t, y, Min(h_abs, IntegrationEnd - t)))

\* sys_ok = build_system_from_cfg(cfg, opening_fun=step_opening(...),
\* leak_CdA_m2=0.0) on a valve without reverse flow
Healthy(net) ==
    /\ net.hp.CdA_leak_m2 = 0
    /\ ~net.valve.allow_reverse_flow
    /\ net.opening_fun.kind = "step"

\* integrate_ode(fun=sys_ok.rhs, y0, t_span): the solver starts at t = 0
\* with the first step 1e-6 s that a zero derivative gives
CallIntegrateOde ==
    /\ op = "BOPHydraulicMVP"
    /\ Healthy(obj)
    /\ op' = "integrate_ode"
    /\ args' = [y0 |-> ScenarioY0, t_span |-> <<0, IntegrationEnd>>]
    /\ ret' = [t |-> 0, y |-> ScenarioY0, h_abs |-> 1]
    /\ prev' = <<>>
    /\ UNCHANGED obj

\* the solver advances by one accepted step; prev keeps the point before
IntegratorStep ==
    /\ op = "integrate_ode"
    /\ ret.t < args.t_span[2]
    /\ ret' = AcceptedStep(obj, ret.t, ret.y, ret.h_abs, FALSE)
    /\ prev' = <<[t |-> ret.t, y |-> ret.y]>>
    /\ UNCHANGED <<op, args, obj>>

NextScenario == NewBOPHydraulicMVP \/ CallIntegrateOde \/ IntegratorStep

SpecScenario == Init /\ [][NextScenario]_vars

---------------------------------------------------------------------------
(* accumulator.py: pressures in Pa, volumes in 1e-13 m3, polytropic_n in
   tenths, flows in mm3/s *)

\* AccumulatorParams.__post_init__
AccumulatorParamsError(P) ==
    IF P.precharge_pa <= 0 THEN Some("ValueError: precharge_pa deve ser > 0")
    ELSE IF P.gas_volume_m3 <= 0 THEN Some("ValueError: gas_volume_m3 deve ser > 0")
    ELSE IF P.polytropic_n <= 0 THEN Some("ValueError: polytropic_n deve ser > 0")
    ELSE IF P.fluid_volume_m3 < 0 THEN Some("ValueError: fluid_volume_m3 nao pode ser negativo")
    ELSE NoneV

\* 1000 * x ** 1.2, x = k / 10, k = 0 .. 40
PowTable ==
    << 0, 63, 145, 236, 333, 435, 542, 652, 765, 881,
       1000, 1121, 1245, 1370, 1497, 1627, 1758, 1890, 2025, 2160,
       2297, 2436, 2576, 2717, 2859, 3003, 3148, 3293, 3440, 3588,
       3737, 3887, 4038, 4190, 4343, 4497, 4651, 4807, 4963, 5120,
       5278 >>

\* 1000 * (a / b) ** n for n = n10 / 10: 1.0 ** n is 1.0; whole exponents
\* by multiplication; 1.2 from the table, the ratio cut to tenths
PowRatio(a, b, n10) ==
    IF a = b THEN 1000
    ELSE IF n10 = 10 THEN MulDiv(1000, a, b)
    ELSE IF n10 = 20 THEN MulDiv(MulDiv(1000, a, b), a, b)
    ELSE PowTable[Min(MulDiv(10, a, b), Len(PowTable) - 1) + 1]

\* precharge_pa * (gas_volume_m3 / Vg) ** polytropic_n; a product past
\* 2e9 Pa, above every max_pressure_pa drawn, is kept at 2e9
GasPressureFromVg(P, Vg) ==
    LET pw == PowRatio(P.gas_volume_m3, Vg, P.polytropic_n)
    IN IF pw \div 1000 >= 2000000000 \div P.precharge_pa THEN 2000000000
       ELSE MulDiv(P.precharge_pa, pw, 1000)

GasVolumeWithoutInitialFluid(P, Vf) ==
    LET Vg == P.gas_volume_m3 - Vf
    IN IF Vg <= 10 THEN 10 ELSE Vg

\* Vg = gas_volume_m3 + (Vf0 - Vf), floored at 1e-12 m3
GasVolume(P, Vf) ==
    LET Vg == P.gas_volume_m3 + (P.fluid_volume_m3 - Vf)
    IN IF Vg <= 10 THEN 10 ELSE Vg

\* Accumulator.rhs: the derivatives and the algebraic pressure
AccumulatorRhs(P, state, Q_out_m3s, Q_in_m3s) ==
    LET dVf_dt == Q_in_m3s - Q_out_m3s
        raw == GasPressureFromVg(P, GasVolume(P, state.Vf))
        floored == IF raw < P.min_pressure_pa THEN P.min_pressure_pa ELSE raw
        pressure == IF floored > P.max_pressure_pa THEN P.max_pressure_pa ELSE floored
    IN [d |-> [P |-> 0, Vf |-> dVf_dt], P |-> pressure]

\* Accumulator.initial_state
InitialState(P, pressure_pa) ==
    [P |-> IF IsNone(pressure_pa) THEN P.precharge_pa ELSE Val(pressure_pa),
     Vf |-> P.fluid_volume_m3]

AccumulatorParamSets ==
    { [name |-> "ACC1", precharge_pa |-> p0, gas_volume_m3 |-> vg0, polytropic_n |-> n,
       fluid_volume_m3 |-> vf0, min_pressure_pa |-> pmin, max_pressure_pa |-> 1000000000] :
        p0 \in {0 - 1, 0, 50000, 100000, 20700000, 1000000000, 1500000000},
        vg0 \in {0 - 20, 0, 5, 10, 11, 20, 40},
        n \in {0 - 12, 0, 10, 12, 20},
        vf0 \in {0 - 1, 0, 20},
        pmin \in {100000, 1000} }

\* AccumulatorParams(...) then Accumulator(params): obj is the accumulator,
\* or ret the error of the construction
NewAccumulator ==
    /\ op = "init"
    /\ \E P \in AccumulatorParamSets :
          IF IsNone(AccumulatorParamsError(P))
          THEN /\ op' = "Accumulator"
               /\ obj' = P
               /\ args' = P
               /\ ret' = [raised |-> FALSE]
          ELSE /\ op' = "AccumulatorParams"
               /\ obj' = obj
               /\ args' = P
               /\ ret' = Raised(Val(AccumulatorParamsError(P)))
    /\ UNCHANGED prev

CallAccumulatorRhs ==
    /\ op = "Accumulator"
    /\ \E vf \in {0, 10, 20, 30, 60, 100}, start \in BOOLEAN, q \in {<<0, 0>>, <<2000, 500>>} :
          LET state == IF start THEN InitialState(obj, NoneV) ELSE [P |-> 20700000, Vf |-> vf]
          IN /\ op' = "Accumulator.rhs"
             /\ args' = [state |-> state, Q_out_m3s |-> q[1], Q_in_m3s |-> q[2]]
             /\ ret' = AccumulatorRhs(obj, state, q[1], q[2])
    /\ UNCHANGED <<obj, prev>>

NextAccumulator == NewAccumulator \/ CallAccumulatorRhs

SpecAccumulator == Init /\ [][NextAccumulator]_vars

---------------------------------------------------------------------------
(* Construction of the parameter objects.  LumpedHydraulicParams of
   BOP_TWIN/SYSTEMS/bop_hydraulic.py is a plain dataclass; the older copy of
   the module under "BOP TWIN" has a __post_init__ that validates. *)

\* LumpedHydraulicParams.__post_init__ of the older copy
LegacyHydraulicParamsError(P) ==
    IF P.rho <= 0 THEN Some("ValueError: rho deve ser > 0")
    ELSE IF P.bulk_modulus <= 0 THEN Some("ValueError: bulk_modulus deve ser > 0")
    ELSE IF P.V_acc_eff_m3 <= 0 THEN Some("ValueError: V_acc_eff_m3 deve ser > 0")
    ELSE IF P.V_act_m3 <= 0 THEN Some("ValueError: V_act_m3 deve ser > 0")
    ELSE IF P.p_atm_pa <= 0 THEN Some("ValueError: p_atm_pa deve ser > 0")
    ELSE IF P.CdA_leak_m2 < 0 THEN Some("ValueError: CdA_leak_m2 deve ser >= 0")
    ELSE NoneV

\* the dataclass without a __post_init__ raises nothing
HydraulicParamsError(P) == NoneV

HydraulicParamCandidates ==
    { [DefaultHydraulicParams EXCEPT !.rho = r, !.bulk_modulus = b,
                                     !.V_acc_eff_m3 = va, !.V_act_m3 = vc,
                                     !.CdA_leak_m2 = lk] :
        r \in {-1000, 0, 1000}, b \in {-1500000, 0, 1500000},
        va \in {-20000000, 0, 20000000}, vc \in {0, 5000000}, lk \in {-500, 0, 500} }

NewLumpedHydraulicParams ==
    /\ op = "init"
    /\ \E P \in HydraulicParamCandidates :
          IF IsNone(HydraulicParamsError(P))
          THEN /\ op' = "LumpedHydraulicParams"
               /\ obj' = P
               /\ args' = P
               /\ ret' = [raised |-> FALSE]
          ELSE /\ op' = "LumpedHydraulicParams.__post_init__"
               /\ obj' = obj
               /\ args' = P
               /\ ret' = Raised(Val(HydraulicParamsError(P)))
    /\ UNCHANGED prev

\* the same construction with the older copy of the module
NewLegacyLumpedHydraulicParams ==
    /\ op = "init"
    /\ \E P \in HydraulicParamCandidates :
          IF IsNone(LegacyHydraulicParamsError(P))
          THEN /\ op' = "legacy LumpedHydraulicParams"
               /\ obj' = P
               /\ args' = P
               /\ ret' = [raised |-> FALSE]
          ELSE /\ op' = "legacy LumpedHydraulicParams.__post_init__"
               /\ obj' = obj
               /\ args' = P
               /\ ret' = Raised(Val(LegacyHydraulicParamsError(P)))
    /\ UNCHANGED prev

NextConstruction ==
    NewLumpedHydraulicParams \/ NewLegacyLumpedHydraulicParams \/ NewBOPHydraulicMVP
    \/ NewAccumulator

SpecConstruction == Init /\ [][NextConstruction]_vars

---------------------------------------------------------------------------
(* FAULTS: a configuration is a dict, modelled as a function on its keys;
   factors in percent, area_m2 in 1e-9 m2, bulk_modulus in kPa,
   gas_precharge_psi in psi, friction_coulomb_n in N, CdA_leak_m2 in
   1e-9 m2.  apply works on the dict it is given, so its result is both the
   value returned and the content of the caller's dict after the call. *)

EmptyDict == <<>>
Has(d, k) == k \in DOMAIN d
DictSet(d, k, v) == [x \in DOMAIN d \cup {k} |-> IF x = k THEN v ELSE d[x]]
\* d.get(k, {})
GetDict(d, k) == IF Has(d, k) THEN d[k] ELSE EmptyDict
\* float(x) * float(factor)
Scaled(x, factor) == (x * factor) \div 100

Returns(cfg) == [raised |-> FALSE, cfg |-> cfg]
\* the exception leaves the dict as it was when it was raised
RaisesWith(what, cfg) == [raised |-> TRUE, what |-> what, cfg |-> cfg]

LeakageApplyKeepsFirst(f, cfg) ==
    LET c1 == IF Has(cfg, "fault_runtime") THEN cfg ELSE DictSet(cfg, "fault_runtime", EmptyDict)
    IN Returns(IF Has(c1["fault_runtime"], "CdA_leak_m2") THEN c1
               ELSE DictSet(c1, "fault_runtime",
                            DictSet(c1["fault_runtime"], "CdA_leak_m2", f.CdA_leak_m2)))

LeakageApply(f, cfg) ==
    LET c1 == IF Has(cfg, "fault_runtime") THEN cfg ELSE DictSet(cfg, "fault_runtime", EmptyDict)
    IN Returns(DictSet(c1, "fault_runtime",
                       DictSet(c1["fault_runtime"], "CdA_leak_m2", f.CdA_leak_m2)))

CloggingApply(f, cfg) ==
    LET valves == GetDict(cfg, "valves")
    IN IF Has(valves, f.valve_name) /\ Has(valves[f.valve_name], "area_m2")
       THEN LET v == valves[f.valve_name]
            IN Returns(DictSet(cfg, "valves",
                   DictSet(valves, f.valve_name,
                       DictSet(v, "area_m2", Scaled(v["area_m2"], f.area_factor)))))
       ELSE Returns(cfg)

BulkModulusDropApply(f, cfg) ==
    IF ~Has(cfg, "fluid") THEN RaisesWith("KeyError: 'fluid'", cfg)
    ELSE IF ~Has(cfg["fluid"], "bulk_modulus") THEN RaisesWith("KeyError: 'bulk_modulus'", cfg)
    ELSE Returns(DictSet(cfg, "fluid",
             DictSet(cfg["fluid"], "bulk_modulus", Scaled(cfg["fluid"]["bulk_modulus"], f.factor))))

PrechargeLossApply(f, cfg) ==
    LET accs == GetDict(cfg, "accumulators")
    IN IF ~Has(cfg, "accumulators") THEN Returns(cfg)
       ELSE Returns(DictSet(cfg, "accumulators",
                [a \in DOMAIN accs |->
                    IF Has(accs[a], "gas_precharge_psi")
                    THEN DictSet(accs[a], "gas_precharge_psi",
                                 Scaled(accs[a]["gas_precharge_psi"], f.factor))
                    ELSE accs[a]]))

SealFrictionIncreaseApply(f, cfg) ==
    LET actuators == GetDict(cfg, "actuators")
    IN IF Has(actuators, f.actuator_name)
       THEN LET a == actuators[f.actuator_name]
                friction == IF Has(a, "friction_coulomb_n") THEN a["friction_coulomb_n"] ELSE 0
            IN Returns(DictSet(cfg, "actuators",
                   DictSet(actuators, f.actuator_name,
                       DictSet(a, "friction_coulomb_n", friction + f.delta_coulomb_n))))
       ELSE Returns(cfg)

\* fault.apply(cfg)
ApplyFault(f, cfg) ==
    IF f.kind = "LeakageFault" THEN LeakageApply(f, cfg)
    ELSE IF f.kind = "CloggingFault" THEN CloggingApply(f, cfg)
    ELSE IF f.kind = "BulkModulusDropFault" THEN BulkModulusDropApply(f, cfg)
    ELSE IF f.kind = "PrechargeLossFault" THEN PrechargeLossApply(f, cfg)
    ELSE SealFrictionIncreaseApply(f, cfg)

---------------------------------------------------------------------------
(* A configuration dict of the caller and the faults applied to it *)

FullConfig ==
    [ fluid |-> [rho |-> 1000, bulk_modulus |-> 1500000],
      valves |-> [V1 |-> [area_m2 |-> 100000]],
      accumulators |-> [ACC1 |-> [gas_precharge_psi |-> 3000], ACC2 |-> [volume_l |-> 40]],
      actuators |-> [A1 |-> [friction_coulomb_n |-> 500], A2 |-> [area_m2 |-> 2000]] ]

Without(d, k) == [x \in DOMAIN d \ {k} |-> d[x]]

Configs ==
    { FullConfig,
      Without(FullConfig, "fluid"),
      DictSet(FullConfig, "fluid", [rho |-> 1000]),
      Without(FullConfig, "accumulators"),
      Without(FullConfig, "valves"),
      Without(FullConfig, "actuators"),
      DictSet(FullConfig, "valves", [V1 |-> [name |-> "V1"]]),
      DictSet(FullConfig, "fault_runtime", [CdA_leak_m2 |-> 200]),
      EmptyDict }

Faults ==
    { [kind |-> "LeakageFault", name |-> "leak", CdA_leak_m2 |-> c] : c \in {0, 500} }
    \cup { [kind |-> "CloggingFault", name |-> "clog", valve_name |-> v[1], area_factor |-> v[2]] :
             v \in { <<"V1", 50>>, <<"V1", 30>>, <<"VX", 50>> } }
    \cup { [kind |-> "BulkModulusDropFault", name |-> "bulk", factor |-> x] : x \in {80, 50} }
    \cup { [kind |-> "PrechargeLossFault", name |-> "precharge", factor |-> x] : x \in {80, 50} }
    \cup { [kind |-> "SealFrictionIncreaseFault", name |-> "seal",
            actuator_name |-> a[1], delta_coulomb_n |-> a[2]] :
             a \in { <<"A1", 100>>, <<"A1", 250>>, <<"A2", 100>>, <<"AX", 100>> } }

\* the caller builds its configuration dict
NewConfig ==
    /\ op = "init"
    /\ \E cfg \in Configs :
          /\ op' = "cfg"
          /\ obj' = cfg
    /\ UNCHANGED <<args, ret, prev>>

\* fault.apply(cfg) on the caller's dict obj; args keeps the content the
\* dict had at the call and prev the application before this one.  The
\* dict returned is the dict passed in.
CallApply ==
    /\ op = "cfg" \/ (op = "apply" /\ Len(prev) = 0)
    /\ \E f \in Faults :
          LET r == ApplyFault(f, obj)
          IN /\ op' = "apply"
             /\ args' = [fault |-> f, cfg |-> obj]
             /\ ret' = IF r.raised THEN Raised(r.what)
                       ELSE [raised |-> FALSE, value |-> r.cfg, is_argument |-> TRUE]
             /\ obj' = r.cfg
             /\ prev' = IF op = "apply" THEN <<[args |-> args, ret |-> ret]>> ELSE <<>>

NextFaults == NewConfig \/ CallApply

SpecFaults == Init /\ [][NextFaults]_vars

---------------------------------------------------------------------------
(* bop_hydraulic.py, build_system_from_cfg: the network built from a
   configuration dict.  The dict holds bulk_modulus in kPa, volumes in
   1e-9 m3 and area_m2 in 1e-9 m2; the valve takes its area in mm2.  The
   configurations drawn name one valve, which is then the first. *)

\* d.get(k, default)
GetOr(d, k, default) == IF Has(d, k) THEN d[k] ELSE default

FirstValveName(cfg) == CHOOSE v \in DOMAIN cfg["valves"] : TRUE

\* LumpedHydraulicParams(...) of build_system_from_cfg
HydraulicParamsFromCfg(cfg, leak_CdA_m2) ==
    [ rho |-> cfg["fluid"]["rho"],
      bulk_modulus |-> cfg["fluid"]["bulk_modulus"],
      V_acc_eff_m3 |-> GetOr(GetDict(cfg, "hydraulics"), "V_acc_eff_m3", 20000000),
      V_act_m3 |-> GetOr(GetDict(cfg, "hydraulics"), "V_act_m3", 5000000),
      p_atm_pa |-> 100000,
      CdA_leak_m2 |-> leak_CdA_m2,
      gas_volume_fraction |-> GetOr(GetDict(cfg, "fluid"), "gas_volume_fraction", 0),
      V_acc_line_m3 |-> GetOr(GetDict(cfg, "hydraulics"), "V_acc_line_m3", 0),
      V_act_line_m3 |-> GetOr(GetDict(cfg, "hydraulics"), "V_act_line_m3", 0),
      acc_structure_compliance_m3_per_pa |->
          GetOr(GetDict(cfg, "hydraulics"), "acc_structure_compliance_m3_per_pa", 0),
      act_structure_compliance_m3_per_pa |->
          GetOr(GetDict(cfg, "hydraulics"), "act_structure_compliance_m3_per_pa", 0),
      line_resistance_pa_s_per_m3 |->
          GetOr(GetDict(cfg, "hydraulics"), "line_resistance_pa_s_per_m3", 0) ]

\* OrificeValveParams(...) of build_system_from_cfg
ValveParamsFromCfg(cfg, name, vcfg) ==
    [ name |-> name,
      cd |-> GetOr(vcfg, "cd", 62),
      area_m2 |-> GetOr(vcfg, "area_m2", 100000) \div 1000,
      min_opening |-> 0,
      max_opening |-> 1000,
      min_delta_p_pa |-> GetOr(vcfg, "min_delta_p_pa", 0),
      yield_stress_pa |-> GetOr(vcfg, "yield_stress_pa",
                                GetOr(GetDict(cfg, "fluid"), "yield_stress_pa", 0)),
      hydraulic_diameter_m |-> GetOr(vcfg, "hydraulic_diameter_m", 10000000),
      equivalent_length_m |-> GetOr(vcfg, "equivalent_length_m", 1000000000),
      transmission_gain |-> GetOr(vcfg, "transmission_gain", 1000),
      inertia_dissipation_ratio |-> GetOr(vcfg, "inertia_dissipation_ratio", 1000000000),
      attenuation_alpha |-> GetOr(vcfg, "attenuation_alpha", 0),
      allow_reverse_flow |-> GetOr(vcfg, "allow_reverse_flow", FALSE),
      reverse_flow_gain |-> GetOr(vcfg, "reverse_flow_gain", 1000) ]

\* build_system_from_cfg(cfg, opening_fun=..., leak_CdA_m2=...)
BuildSystemFromCfg(cfg, opening_fun, leak_CdA_m2) ==
    IF ~Has(cfg, "fluid") THEN Raised("KeyError: 'fluid'")
    ELSE IF ~Has(cfg["fluid"], "rho") THEN Raised("KeyError: 'rho'")
    ELSE IF ~Has(cfg["fluid"], "bulk_modulus") THEN Raised("KeyError: 'bulk_modulus'")
    ELSE IF ~Has(cfg, "valves") THEN Raised("KeyError: 'valves'")
    ELSE IF DOMAIN cfg["valves"] = {} THEN Raised("StopIteration")
    ELSE [ raised |-> FALSE,
           value |-> NewNetwork(
               HydraulicParamsFromCfg(cfg, leak_CdA_m2),
               ValveParamsFromCfg(cfg, FirstValveName(cfg), cfg["valves"][FirstValveName(cfg)]),
               opening_fun) ]

\* the leak_CdA_m2 arguments drawn; 0 is the default
LeakArguments == {0, 500}

\* build_system_from_cfg on the caller's dict obj, as it is or after the
\* faults applied to it; prev keeps the applications, the last one last
CallBuildSystemFromCfg ==
    /\ op = "cfg" \/ (op = "apply" /\ ~ret.raised)
    /\ \E leak \in LeakArguments :
          /\ op' = "build_system_from_cfg"
          /\ args' = [cfg |-> obj, opening_fun |-> NoneV, leak_CdA_m2 |-> leak]
          /\ ret' = BuildSystemFromCfg(obj, NoneV, leak)
          /\ prev' = IF op = "apply" THEN prev \o <<[args |-> args, ret |-> ret]>> ELSE <<>>
    /\ UNCHANGED obj

NextBuild == NewConfig \/ CallApply \/ CallBuildSystemFromCfg

SpecBuild == Init /\ [][NextBuild]_vars

---------------------------------------------------------------------------
(* the three acceptance evaluators together, and the whole program *)

NextAccept == CallEvaluatePressureTest \/ CallEvaluateSoakTest \/ CallEvaluateClosingTimes

SpecAccept == Init /\ [][NextAccept]_vars

Next ==
    NextPressure \/ NextSoak \/ NextFunction \/ NextHold \/ NextValve \/ NextAccumulator
    \/ NextHydraulic \/ NextConstruction \/ NextScenario \/ NextFaults \/ NextBuild

Spec == Init /\ [][Next]_vars

---------------------------------------------------------------------------
(* properties *)

Evaluators == {"evaluate_pressure_test", "evaluate_soak_test", "evaluate_closing_times"}

\* the reason codes the specification lists
ReasonVocabulary ==
    { "ok", "series_too_short", "insufficient_samples_in_observation_window",
      "bop_measured_pressure_above_nominal_limit", "overpressure_above_rwp_limit",
      "low_test_exceeded_500psi_requires_redo", "low_test_outside_250_350_during_observation",
      "low_test_drop_exceeds_limit", "low_test_rise_exceeds_limit",
      "missing_designated_pressure_for_high_test",
      "high_test_designated_pressure_below_minimum_2000psi",
      "high_test_below_designated_requires_repressurize_restart_window",
      "high_test_drop_exceeds_limit", "high_test_stabilization_below_required_limit",
      "insufficient_duration", "insufficient_samples_in_block", "drop_exceeds_limit",
      "requires_extended_observation_until_pump_interval_above_4h",
      "closing_time_exceeds_limit",
      "missing_close_time_s", "missing_regulator_setpoint",
      "regulator_min_pressure_too_high", "regulator_max_pressure_too_low" }

Returned == op \in Evaluators /\ ~ret.raised

\* C1, as stated: every top-level reason an evaluator returns is in the
\* listed vocabulary.
C1_ReasonInVocabulary == Returned => ret.reason \in ReasonVocabulary

\* C1, amended: a top-level reason is in the listed vocabulary, except that
\* evaluate_closing_times answers regulator_criteria_not_met or
\* closing_time_and_regulator_criteria_not_met when the regulator check
\* fails, and evaluate_pressure_test answers unknown_mode for a mode that is
\* neither low nor high.
C1_ReasonInVocabularyOrComposite ==
    Returned =>
        \/ ret.reason \in ReasonVocabulary
        \/ /\ op = "evaluate_closing_times"
           /\ ~ret.details.regulator.ok
           /\ ret.reason = (IF Len(ret.details.fails) = 0 THEN "regulator_criteria_not_met"
                            ELSE "closing_time_and_regulator_criteria_not_met")
        \/ /\ op = "evaluate_pressure_test"
           /\ args.spec.mode \notin {"low", "high"}
           /\ ret.reason = "unknown_mode"

C1_Witness ==
    /\ op = "evaluate_closing_times" /\ ~ret.raised
    /\ ret.reason = "closing_time_and_regulator_criteria_not_met"

\* C2: for equal-length series of at least 20 samples in a supported unit,
\* evaluate_pressure_test does not raise, and ok is true exactly when the
\* reason is "ok".
C2_PressureTestNeverRaises ==
    ( /\ op = "evaluate_pressure_test"
      /\ Len(args.time_s) = Len(args.pressure_psi)
      /\ Len(args.time_s) >= MinSamples
      /\ SupportedUnit(args.pressure_unit) )
    => (~ret.raised /\ ret.ok \in BOOLEAN /\ (ret.ok <=> ret.reason = "ok"))

C2_Witness ==
    /\ op = "evaluate_pressure_test"
    /\ Len(args.time_s) = Len(args.pressure_psi)
    /\ Len(args.time_s) >= MinSamples
    /\ SupportedUnit(args.pressure_unit)
    /\ ~ret.raised /\ ~ret.ok
    /\ ret.reason = "insufficient_samples_in_observation_window"
    /\ ret.details.n_obs > 0

\* a low-mode call that passed the range check and every optional check
LowModeInRange ==
    /\ op = "evaluate_pressure_test" /\ ~ret.raised
    /\ args.spec.mode = "low"
    /\ ret.reason \in {"ok", "low_test_drop_exceeds_limit", "low_test_rise_exceeds_limit"}

\* C3: in low mode, in range, a drop of exactly max_drop_low_psi passes and
\* a drop of max_drop_low_psi + 0.01 psi fails with
\* low_test_drop_exceeds_limit; more, the drop fails exactly when it is
\* above the limit.
C3_LowDropBoundary ==
    LowModeInRange =>
        LET drop_sum == ret.details.drop_sum
            k == ret.details.k
            limit == args.spec.max_drop_low_psi
        IN /\ drop_sum = limit * k => (ret.ok /\ ret.reason = "ok")
           /\ drop_sum = (limit + 1) * k => (~ret.ok /\ ret.reason = "low_test_drop_exceeds_limit")
           /\ (ret.reason = "low_test_drop_exceeds_limit") <=> (drop_sum > limit * k)

C3_Witness ==
    /\ LowModeInRange
    /\ ret.details.drop_sum = args.spec.max_drop_low_psi * ret.details.k
    /\ ret.ok

\* the limit the table names for a record, in tenths of a second: annular
\* subsea 60 s, annular surface 30 s below 18.75 in and 45 s from 18.75 in,
\* ram subsea 45 s, ram surface 30 s
TableLimit(typ, env, bore_in) ==
    CASE typ = "annular" /\ env = "subsea" -> 600
      [] typ = "annular" /\ env = "surface" /\ bore_in < 1875 -> 300
      [] typ = "annular" /\ env = "surface" /\ bore_in >= 1875 -> 450
      [] typ = "ram" /\ env = "subsea" -> 450
      [] typ = "ram" /\ env = "surface" -> 300

\* an annular or ram record with a close time, its environment stated, and
\* its bore stated where the table asks for it
TimedRecord(r) ==
    /\ ~IsNone(r.type) /\ Lower(Val(r.type)) \in {"annular", "ram"}
    /\ ~IsNone(r.close_time_s)
    /\ ~IsNone(r.environment) /\ Lower(Val(r.environment)) \in {"subsea", "surface"}
    /\ (Lower(Val(r.type)) = "annular" /\ Lower(Val(r.environment)) = "surface") => ~IsNone(r.bore_in)

\* fails holds a closing-time entry for the record of that name
TimeFailureRecorded(fails, name) ==
    \E j \in 1..Len(fails) : fails[j].name = name /\ "limit_s" \in DOMAIN fails[j]

SingleSubseaAnnular(close) ==
    /\ Len(args.records) = 1
    /\ args.records[1].type = Some("annular")
    /\ args.records[1].environment = Some("subsea")
    /\ args.records[1].close_time_s = Some(close)
    /\ ~MustValidateRegulators(args)

\* C4: with the default limits, an annular or ram record with a close time
\* is recorded as a failure exactly when the close time is above the limit
\* of the table; a subsea annular at 61 s fails the verdict with
\* closing_time_exceeds_limit and at 60 s passes.
C4_ClosingTimeAgainstLimit ==
    (op = "evaluate_closing_times" /\ ~ret.raised) =>
        /\ \A i \in 1..Len(args.records) :
              LET r == args.records[i]
              IN TimedRecord(r) =>
                    ( TimeFailureRecorded(ret.details.fails, r.name)
                      <=> Val(r.close_time_s) > TableLimit(Lower(Val(r.type)),
                                                           Lower(Val(r.environment)),
                                                           Get(r.bore_in, 0)) )
        /\ SingleSubseaAnnular(610) => (~ret.ok /\ ret.reason = "closing_time_exceeds_limit")
        /\ SingleSubseaAnnular(600) => (ret.ok /\ ret.reason = "ok")

C4_Witness ==
    /\ op = "evaluate_closing_times" /\ ~ret.raised
    /\ SingleSubseaAnnular(600)
    /\ ret.ok

\* C5: allowed_drop_per_step answers the table entry of the pump-start
\* pressure rounded to the nearest integer psi (2700 -> 6, 4700 -> 6,
\* 4600 -> 8, 4500 -> 10, anything else -> 6), so one of 6, 8, 10 psi.
\* Pressures are in tenths of a psi, drops in hundredths.
C5_AllowedDropTable ==
    op = "allowed_drop_per_step" =>
        /\ ret \in {600, 800, 1000}
        /\ \E r \in 0..10000 :
              /\ 2 * Abs(args.pump_start_psi - 10 * r) <= 10
              /\ ret = (CASE r = 2700 -> 600
                          [] r = 4700 -> 600
                          [] r = 4600 -> 800
                          [] r = 4500 -> 1000
                          [] OTHER -> 600)
        /\ args.pump_start_psi = 27000 => ret = 600
        /\ args.pump_start_psi = 45000 => ret = 1000
        /\ args.pump_start_psi = 99990 => ret = 600

C5_Witness ==
    /\ op = "allowed_drop_per_step"
    /\ args.pump_start_psi = 45996
    /\ ret = 800

\* C6: with use_petrobras_logic off, acceptance_hold_drop answers pass = true
\* exactly when delta_p_percent <= max_drop_percent (max_drop_percent in
\* hundredths of a percent, delta_p_percent a fraction num/den).
C6_PassIffWithinMaxDrop ==
    (op = "acceptance_hold_drop" /\ ~ret.raised /\ ~args.use_petrobras_logic) =>
        LET dp == ret.delta_p_percent
            scaled == dp.num * 100 * Sign(dp.den)
            bound == args.max_drop_percent * Abs(dp.den)
        IN ret.pass <=> ~(scaled > bound)

C6_Witness ==
    /\ op = "acceptance_hold_drop" /\ ~ret.raised /\ ~args.use_petrobras_logic
    /\ ret.delta_p_percent.num * 100 = args.max_drop_percent * ret.delta_p_percent.den
    /\ ret.delta_p_percent.num > 0
    /\ ret.pass

\* the scenario: 601 samples over 600 s falling linearly from 200e5 Pa to
\* 198e5 Pa, window_s = 300, max_drop_percent = 1.0, legacy rule
LinearDeclineScenario ==
    /\ op = "acceptance_hold_drop" /\ ~ret.raised
    /\ ~args.use_petrobras_logic
    /\ Len(args.t) = 601 /\ args.t[1] = 0 /\ args.t[601] = 600
    /\ args.p = LinSpace(20000000, 19800000, 601)
    /\ args.window_s = 300
    /\ args.max_drop_percent = 100

\* C7, as stated: in the scenario delta_p_percent is about 1.0 % (within
\* a tenth of a percent of it).
C7_DeltaAboutOnePercent ==
    LinearDeclineScenario =>
        LET dp == ret.delta_p_percent
        IN 9 * dp.den <= 10 * dp.num /\ 10 * dp.num <= 11 * dp.den

\* C7, amended: in the scenario delta_p_percent is 100/199, about 0.5 %: the
\* drop across the last 300 s, from 199e5 Pa to 198e5 Pa, half the
\* threshold, and pass is true.
C7_DeltaAboutHalfPercent ==
    LinearDeclineScenario =>
        /\ ret.delta_p_percent.num * 199 = ret.delta_p_percent.den * 100
        /\ ret.delta_p_percent.den > 0
        /\ ret.pass

C7_Witness == LinearDeclineScenario /\ ret.delta_p_percent.num > 0

\* C8, as stated: flow_m3s answers exactly 0 when opening = 0 or when
\* p_up = p_dn.
C8_ZeroFlowAtZeroOpening ==
    op = "flow_m3s" => ((args.opening = 0 \/ args.p_up_pa = args.p_dn_pa) => ret = 0)

\* C8, amended: flow_m3s answers exactly 0 when p_up = p_dn, or when the
\* opening clamped to [min_opening, max_opening] is 0, as it is for
\* opening = 0 with min_opening = 0; with min_opening > 0 an opening of 0 is
\* raised to min_opening and the flow need not be 0.
C8_ZeroFlowAtZeroClampedOpening ==
    op = "flow_m3s" =>
        ( ( \/ args.p_up_pa = args.p_dn_pa
            \/ (args.opening = 0 /\ obj.min_opening = 0)
            \/ Min(Max(args.opening, obj.min_opening), obj.max_opening) = 0 )
          => ret = 0 )

C8_Witness ==
    /\ op = "flow_m3s"
    /\ args.opening = 0 /\ obj.min_opening = 0
    /\ args.p_up_pa > args.p_dn_pa
    /\ ret = 0

\* C9: when allow_reverse_flow is false the flow is >= 0, and exactly 0
\* whenever p_up < p_dn.
C9_NoReverseFlow ==
    (op = "flow_m3s" /\ ~obj.allow_reverse_flow) =>
        (ret >= 0 /\ (args.p_up_pa < args.p_dn_pa => ret = 0))

C9_Witness ==
    /\ op = "flow_m3s" /\ ~obj.allow_reverse_flow
    /\ args.p_up_pa < args.p_dn_pa
    /\ args.opening > 0
    /\ ret = 0

\* two calls on one valve with the same density
TwoCalls == op = "flow_m3s" /\ Len(prev) = 1 /\ prev[1].args.rho = args.rho

Differential(a) == a.p_up_pa - a.p_dn_pa

\* the flow magnitude does not fall from the first call to the second when
\* the pressures are the same and the opening does not fall
MonotoneInOpening ==
    ( /\ prev[1].args.p_up_pa = args.p_up_pa
      /\ prev[1].args.p_dn_pa = args.p_dn_pa
      /\ prev[1].args.opening <= args.opening )
    => Abs(prev[1].ret) <= Abs(ret)

\* C10, as stated: for fixed parameters and density the flow magnitude is
\* non-decreasing in opening for fixed pressures, and non-decreasing in
\* |p_up - p_dn| above the blocking threshold for fixed opening.
C10_MonotoneInMagnitude ==
    TwoCalls =>
        /\ MonotoneInOpening
        /\ ( /\ prev[1].args.opening = args.opening
             /\ Abs(Differential(prev[1].args)) > BlockingThreshold(obj)
             /\ Abs(Differential(prev[1].args)) <= Abs(Differential(args)) )
           => Abs(prev[1].ret) <= Abs(ret)

\* C10, amended: the flow magnitude is non-decreasing in opening for fixed
\* pressures, and non-decreasing in |p_up - p_dn| above the blocking
\* threshold for fixed opening and differentials of the same sign; between
\* a forward and a reverse differential the order can fail, the reverse
\* flow being floored to 0 or scaled by reverse_flow_gain.
C10_MonotoneInOneDirection ==
    TwoCalls =>
        /\ MonotoneInOpening
        /\ ( /\ prev[1].args.opening = args.opening
             /\ Sign(Differential(prev[1].args)) = Sign(Differential(args))
             /\ Abs(Differential(prev[1].args)) > BlockingThreshold(obj)
             /\ Abs(Differential(prev[1].args)) <= Abs(Differential(args)) )
           => Abs(prev[1].ret) <= Abs(ret)

C10_Witness ==
    /\ TwoCalls
    /\ prev[1].args.opening = args.opening
    /\ obj.yield_stress_pa > 0 /\ obj.attenuation_alpha > 0
    /\ Differential(prev[1].args) > BlockingThreshold(obj)
    /\ Differential(prev[1].args) < Differential(args)
    /\ 0 < prev[1].ret /\ prev[1].ret < ret

\* a call of Accumulator.rhs on the initial fluid volume
AtInitialFluidVolume == op = "Accumulator.rhs" /\ args.state.Vf = obj.fluid_volume_m3

\* C11, as stated: for every accepted AccumulatorParams the pressure rhs
\* returns at Vf = Vf0 is exactly the precharge pressure.
C11_PrechargeAtInitialVolume == AtInitialFluidVolume => ret.P = obj.precharge_pa

\* C11, amended: the pressure rhs returns at Vf = Vf0 is exactly the
\* precharge pressure when the precharge lies within
\* [min_pressure_pa, max_pressure_pa] and the gas volume is above the
\* 1e-12 m3 floor; a precharge outside the clamps comes back clamped.
C11_PrechargeWithinClamps ==
    AtInitialFluidVolume =>
        /\ ( /\ obj.min_pressure_pa <= obj.precharge_pa
             /\ obj.precharge_pa <= obj.max_pressure_pa
             /\ obj.gas_volume_m3 > 10 )
           => ret.P = obj.precharge_pa
        /\ (obj.gas_volume_m3 > 10 /\ obj.precharge_pa < obj.min_pressure_pa)
           => ret.P = obj.min_pressure_pa
        /\ (obj.gas_volume_m3 > 10 /\ obj.precharge_pa > obj.max_pressure_pa)
           => ret.P = obj.max_pressure_pa

C11_Witness ==
    /\ AtInitialFluidVolume
    /\ obj.fluid_volume_m3 > 0
    /\ obj.polytropic_n = 12
    /\ obj.min_pressure_pa < obj.precharge_pa /\ obj.precharge_pa < obj.max_pressure_pa
    /\ obj.gas_volume_m3 > 10
    /\ ret.P = obj.precharge_pa

\* a capacitance num / den that is above zero and not below 1e-15 m3/Pa
StrictlyPositive(c) ==
    /\ c.num > 0
    /\ c.den > 0
    /\ (c.den \div c.num < 1000 \/ (c.den \div c.num = 1000 /\ c.den % c.num = 0))

\* C12: the capacitances C_acc and C_act that rhs computes, and every
\* capacitance node_capacitance_m3_per_pa returns, are strictly positive
\* (and at least 1e-15 m3/Pa) whatever the node pressure (zero and negative
\* included), the gas fraction, the node volume and the compliance.
C12_CapacitancesStrictlyPositive ==
    /\ op = "rhs" =>
          /\ StrictlyPositive(AccCapacitance(obj, args.y))
          /\ StrictlyPositive(ActCapacitance(obj, args.y))
    /\ op = "node_capacitance_m3_per_pa" => StrictlyPositive(ret)

\* rhs evaluated at a negative actuator pressure on a network whose node
\* volumes are zero and whose gas fraction and compliance are negative
C12_Witness ==
    /\ op = "rhs"
    /\ args.y[1] = 0
    /\ args.y[2] < 0
    /\ obj.hp.V_acc_eff_m3 + obj.hp.V_acc_line_m3 <= 0
    /\ obj.hp.V_act_m3 + obj.hp.V_act_line_m3 <= 0
    /\ obj.hp.acc_structure_compliance_m3_per_pa < 0
    /\ ActCapacitance(obj, args.y).num > 0

C14_CallerConfigUnchanged ==
    (op = "apply" /\ ~ret.raised) => obj = args.cfg

\* the target a fault names is not in the configuration
TargetMissing(f, cfg) ==
    \/ f.kind = "CloggingFault" /\ ~Has(GetDict(cfg, "valves"), f.valve_name)
    \/ f.kind = "SealFrictionIncreaseFault" /\ ~Has(GetDict(cfg, "actuators"), f.actuator_name)
    \/ f.kind = "PrechargeLossFault" /\ ~Has(cfg, "accumulators")
    \/ f.kind = "BulkModulusDropFault"
          /\ (~Has(cfg, "fluid") \/ ~Has(cfg["fluid"], "bulk_modulus"))

\* C15: when the target of a fault is unknown or missing (unknown valve or
\* actuator name, no accumulators section, no fluid section or no
\* bulk_modulus field), apply does not raise and no field is changed.
C15_MissingTargetIsNoOp ==
    (op = "apply" /\ TargetMissing(args.fault, args.cfg)) =>
        /\ ~ret.raised
        /\ obj = args.cfg

\* two faults applied one after the other to one configuration, neither
\* raising
TwoApplied == op = "apply" /\ Len(prev) = 1 /\ ~prev[1].ret.raised /\ ~ret.raised

\* both faults write the same field
SameField(f1, f2) ==
    /\ f1.kind = f2.kind
    /\ f1.kind = "CloggingFault" => f1.valve_name = f2.valve_name
    /\ f1.kind = "SealFrictionIncreaseFault" => f1.actuator_name = f2.actuator_name

\* the configuration the two faults give in the other order
OtherOrder == ApplyFault(prev[1].args.fault, ApplyFault(args.fault, prev[1].args.cfg).cfg).cfg

OrderIrrelevantOnDifferentFields ==
    (TwoApplied /\ ~SameField(prev[1].args.fault, args.fault)) => obj = OtherOrder

Compounded(cfg0, f1, f2, cfg2) ==
    /\ f1.kind = "LeakageFault" =>
          cfg2["fault_runtime"]["CdA_leak_m2"] = f2.CdA_leak_m2
    /\ (f1.kind = "CloggingFault" /\ Has(GetDict(cfg0, "valves"), f1.valve_name)
            /\ Has(GetDict(cfg0, "valves")[f1.valve_name], "area_m2")) =>
          cfg2["valves"][f1.valve_name]["area_m2"] =
              (((cfg0["valves"][f1.valve_name]["area_m2"] * f1.area_factor) \div 100)
                  * f2.area_factor) \div 100
    /\ f1.kind = "BulkModulusDropFault" =>
          cfg2["fluid"]["bulk_modulus"] =
              (((cfg0["fluid"]["bulk_modulus"] * f1.factor) \div 100) * f2.factor) \div 100
    /\ f1.kind = "PrechargeLossFault" =>
          \A a \in DOMAIN GetDict(cfg0, "accumulators") :
              Has(cfg0["accumulators"][a], "gas_precharge_psi") =>
                  cfg2["accumulators"][a]["gas_precharge_psi"] =
                      (((cfg0["accumulators"][a]["gas_precharge_psi"] * f1.factor) \div 100)
                          * f2.factor) \div 100
    /\ (f1.kind = "SealFrictionIncreaseFault" /\ Has(GetDict(cfg0, "actuators"), f1.actuator_name)) =>
          cfg2["actuators"][f1.actuator_name]["friction_coulomb_n"] =
              (IF Has(cfg0["actuators"][f1.actuator_name], "friction_coulomb_n")
               THEN cfg0["actuators"][f1.actuator_name]["friction_coulomb_n"] ELSE 0)
              + f1.delta_coulomb_n + f2.delta_coulomb_n

OnScenarioTrajectory ==
    /\ op = "integrate_ode"
    /\ Healthy(obj)
    /\ obj.opening_fun = StepOpening(2000, 1000)
    /\ args.y0 = ScenarioY0

ActuatorNeverDecreases == \A i \in 1..Len(prev) : ret.y[2] >= prev[i].y[2]

SetpointCovered(target) ==
    /\ ~IsNone(args.regulator_records)
    /\ \E i \in 1..Len(Val(args.regulator_records)) :
          LET r == Val(args.regulator_records)[i]
          IN /\ ~IsNone(r.setpoint_psi)
             /\ Val(r.setpoint_psi) - target <= 250
             /\ target - Val(r.setpoint_psi) <= 250

\* C18: when regulator validation is requested (spec.validate_regulators
\* true, or regulator_records supplied, an empty list included), the
\* verdict is ok only if every configured setpoint is covered by a record
\* within 25 psi of it.
C18_ValidationRequiresCoverage ==
    (/\ op = "evaluate_closing_times"
     /\ args.spec.validate_regulators \/ ~IsNone(args.regulator_records)
     /\ ~ret.raised
     /\ ret.ok)
    => \A j \in 1..Len(args.spec.regulator_setpoints_psi) :
           SetpointCovered(args.spec.regulator_setpoints_psi[j])

\* evaluate_soak_test got as far as the per-block drops
BlocksEvaluated ==
    /\ op = "evaluate_soak_test"
    /\ ~ret.raised
    /\ ret.reason \notin {"insufficient_duration", "insufficient_samples_in_block"}

\* every block within the allowed drop, some block above 90 % of it,
\* pump_stop_psi given, and the estimated pump interval
\* (pump_stop - pump_start) / (total drop / duration) below the required
\* hours.  Drops are sums over k samples of hundredths of a psi, pump
\* pressures tenths of a psi.
DubiousPassBelowInterval ==
    /\ BlocksEvaluated
    /\ \A k \in 1..Len(ret.details.drops) :
          ret.details.drops[k].sum <= ret.details.allowed * ret.details.drops[k].k
    /\ \E k \in 1..Len(ret.details.drops) :
          10 * ret.details.drops[k].sum > 9 * ret.details.allowed * ret.details.drops[k].k
    /\ ~IsNone(args.pump_stop_psi)
    /\ ret.details.total_drop > 0
    /\ args.spec.duration_min > 0
    /\ 10 * (IF Val(args.pump_stop_psi) > args.pump_start_psi
             THEN Val(args.pump_stop_psi) - args.pump_start_psi ELSE 0) * args.spec.duration_min
         < args.spec.min_required_pump_interval_h * 60 * ret.details.total_drop

ExtensionVerdict ==
    /\ ~ret.ok
    /\ ret.reason = "requires_extended_observation_until_pump_interval_above_4h"

\* C19 as stated: when every block is within its limit, some block is
\* dubious, pump_stop_psi is given and the estimated pump interval is below
\* the required minimum, the verdict is ok = false with reason
\* requires_extended_observation_until_pump_interval_above_4h.
C19_ExtensionOverridesPass == DubiousPassBelowInterval => ExtensionVerdict

\* C19, amended: the same, provided the spec has extend_if_dubious set (the
\* default); with extend_if_dubious off the verdict stays ok.
C19_ExtensionWhenEnabled ==
    /\ (DubiousPassBelowInterval /\ args.spec.extend_if_dubious) => ExtensionVerdict
    /\ (DubiousPassBelowInterval /\ ~args.spec.extend_if_dubious) => (ret.ok /\ ret.reason = "ok")

\* a default-spec soak test whose blocks all pass, one of them above 90 %
\* of the limit, turned into a failure by the extension rule
C19_Witness ==
    /\ DubiousPassBelowInterval
    /\ args.spec = DefaultSoakTestSpec
    /\ \E k \in 1..Len(ret.details.drops) : ret.details.drops[k].sum = 0
    /\ ExtensionVerdict

\* the physical parameters of a network parameter object are positive
PositiveHydraulicParams(P) ==
    /\ P.rho > 0
    /\ P.bulk_modulus > 0
    /\ P.V_acc_eff_m3 > 0
    /\ P.V_act_m3 > 0

\* C20: no LumpedHydraulicParams object, and so no network, exists with a
\* non-positive density, bulk modulus or node volume, and no accumulator
\* with a non-positive precharge, gas volume or polytropic exponent: their
\* construction fails.
C20_InvalidParametersRejected ==
    /\ op = "LumpedHydraulicParams" => PositiveHydraulicParams(obj)
    /\ op = "BOPHydraulicMVP" => PositiveHydraulicParams(obj.hp)
    /\ op = "Accumulator" =>
          /\ obj.precharge_pa > 0
          /\ obj.gas_volume_m3 > 0
          /\ obj.polytropic_n > 0

\* a call of evaluate_pressure_test with a malformed series
MismatchedSeries == op = "evaluate_pressure_test" /\ Len(args.time_s) # Len(args.pressure_psi)
ShortSeries == op = "evaluate_pressure_test" /\ Len(args.time_s) < 20

\* C21, as stated: a series with time and pressure of different lengths,
\* or with fewer than 20 samples, makes evaluate_pressure_test raise; no
\* verdict is returned.
C21_MalformedSeriesRaises == (MismatchedSeries \/ ShortSeries) => ret.raised

\* C21, amended: time and pressure of different lengths make
\* evaluate_pressure_test raise ValueError, whatever the lengths; an
\* equal-length series of fewer than 20 samples is answered at once with
\* the verdict ok = false, series_too_short, naming the number of samples;
\* no malformed series is evaluated against the acceptance rules.
C21_MismatchRaisesShortIsVerdict ==
    /\ MismatchedSeries =>
          ret = Raised("ValueError: time_s and pressure_psi must have same length")
    /\ (ShortSeries /\ ~MismatchedSeries) =>
          /\ ~ret.raised /\ ~ret.ok
          /\ ret.reason = "series_too_short"
          /\ ret.details.n = Len(args.time_s)

C21_Witness ==
    /\ MismatchedSeries
    /\ Len(args.time_s) >= 20 /\ Len(args.pressure_psi) >= 20
    /\ ret.raised

\* a call that reached the mode-specific checks: long enough, enough
\* samples in the window, no optional check violated
ReachedModeChecks(mode) ==
    /\ op = "evaluate_pressure_test" /\ ~ret.raised
    /\ args.spec.mode = mode
    /\ ret.reason \notin { "series_too_short", "insufficient_samples_in_observation_window",
                           "bop_measured_pressure_above_nominal_limit",
                           "overpressure_above_rwp_limit" }

\* some smoothed sample of the observation window is outside [lo, hi]
WindowLeavesRange(p, idx, lo, hi) ==
    \E j \in 1..Len(idx) : p[idx[j]] < lo \/ p[idx[j]] > hi

\* some smoothed sample of the full series is above limit
SeriesEverAbove(p, limit) == \E i \in 1..Len(p) : p[i] > limit

LowRangeVerdict(p, idx) ==
    IF WindowLeavesRange(p, idx, args.spec.low_min_psi, args.spec.low_max_psi)
    THEN /\ ~ret.ok
         /\ ret.reason = IF SeriesEverAbove(p, args.spec.low_drain_upper_psi)
                         THEN "low_test_exceeded_500psi_requires_redo"
                         ELSE "low_test_outside_250_350_during_observation"
    ELSE ret.reason \in {"ok", "low_test_drop_exceeds_limit", "low_test_rise_exceeds_limit"}

\* C22: in low mode, once the mode checks are reached, a smoothed in-window
\* sample below low_min_psi or above low_max_psi fails the test, with
\* low_test_exceeded_500psi_requires_redo exactly when some smoothed sample
\* of the full series is above low_drain_upper_psi and with
\* low_test_outside_250_350_during_observation otherwise; the drop and rise
\* limits decide only when the window is in range.
C22_LowRangeCheck ==
    ReachedModeChecks("low") =>
        LowRangeVerdict(PreparedSeries(args).p, ObservationIdx(args, PreparedSeries(args).t))

\* the window is out of range and in itself below the drain threshold, the
\* threshold was passed before the window, and the verdict asks for a redo
C22_Witness ==
    /\ ReachedModeChecks("low")
    /\ ret.reason = "low_test_exceeded_500psi_requires_redo"
    /\ ret.details.pmax_obs <= args.spec.low_drain_upper_psi

\* the sums of the first and of the last k smoothed in-window samples
WindowStartSum(p, idx) == SumTo(LAMBDA j : p[idx[j]], 1, EdgeCount(Len(idx)))
WindowEndSum(p, idx) ==
    SumTo(LAMBDA j : p[idx[j]], Len(idx) - EdgeCount(Len(idx)) + 1, Len(idx))

\* the four high-mode conditions, in the order of the claim; the drop is
\* defined once the window holds 10 samples
DesignatedMissing == IsNone(args.designated_pressure_psi)
DesignatedBelowMinimum ==
    /\ args.spec.enforce_min_high_test
    /\ Val(args.designated_pressure_psi) < args.spec.min_high_test_psi
    /\ ~args.high_test_justified_below_min
WindowBelowDesignated(p, idx) ==
    \E j \in 1..Len(idx) : p[idx[j]] < Val(args.designated_pressure_psi)
HighDropAboveLimit(p, idx) ==
    /\ Len(idx) >= 10
    /\ WindowStartSum(p, idx) - WindowEndSum(p, idx)
          > args.spec.max_drop_high_psi * EdgeCount(Len(idx))

\* the reason of the first violated condition, "" when all four hold
HighFirstViolated(p, idx) ==
    IF DesignatedMissing THEN "missing_designated_pressure_for_high_test"
    ELSE IF DesignatedBelowMinimum THEN "high_test_designated_pressure_below_minimum_2000psi"
    ELSE IF WindowBelowDesignated(p, idx)
    THEN "high_test_below_designated_requires_repressurize_restart_window"
    ELSE IF HighDropAboveLimit(p, idx) THEN "high_test_drop_exceeds_limit"
    ELSE ""

HighCall == op = "evaluate_pressure_test" /\ ~ret.raised /\ args.spec.mode = "high"

HighOkOnlyIfAllHold(p, idx) == ret.ok => HighFirstViolated(p, idx) = ""

HighReasonIsFirstViolated(p, idx) ==
    IF HighFirstViolated(p, idx) = ""
    THEN ret.reason \in {"ok", "high_test_stabilization_below_required_limit"}
    ELSE ~ret.ok /\ ret.reason = HighFirstViolated(p, idx)

\* C23, as stated: in high mode ok is true only if a designated pressure
\* was supplied, it is at least min_high_test_psi (or justified, or the
\* minimum is not enforced), every smoothed in-window sample is at least
\* the designated pressure and the drop is at most max_drop_high_psi; the
\* first of the four that is violated gives the reason code.
C23_HighFirstViolatedGivesReason ==
    HighCall =>
        /\ HighOkOnlyIfAllHold(PreparedSeries(args).p,
                               ObservationIdx(args, PreparedSeries(args).t))
        /\ HighFirstViolated(PreparedSeries(args).p,
                             ObservationIdx(args, PreparedSeries(args).t)) # ""
              => ret.reason = HighFirstViolated(PreparedSeries(args).p,
                                                ObservationIdx(args, PreparedSeries(args).t))

\* C23, amended: ok is true only if the four conditions hold, and once the
\* checks that come before the mode (series length, samples in the window,
\* depth-corrected BOP pressure, overpressure above RWP) have passed, the
\* first violated of the four gives the reason code; when all four hold the
\* verdict is ok or the stabilization failure.
C23_HighFirstViolatedAfterGeneralChecks ==
    /\ HighCall =>
          HighOkOnlyIfAllHold(PreparedSeries(args).p,
                              ObservationIdx(args, PreparedSeries(args).t))
    /\ ReachedModeChecks("high") =>
          HighReasonIsFirstViolated(PreparedSeries(args).p,
                                    ObservationIdx(args, PreparedSeries(args).t))

\* the window is below the designated pressure and the drop is above the
\* limit: the window check, which comes first, gives the reason
C23_Witness ==
    /\ ReachedModeChecks("high")
    /\ ret.reason = "high_test_below_designated_requires_repressurize_restart_window"
    /\ HighDropAboveLimit(PreparedSeries(args).p, ObservationIdx(args, PreparedSeries(args).t))

\* the maximum smoothed pressure of the full series is above
\* RWP + min(0.05 RWP, 500 psi)
OverpressureAboveRwp(p) ==
    /\ ~IsNone(args.rwp_psi)
    /\ \E i \in 1..Len(p) :
          p[i] > Val(args.rwp_psi) + Min(Val(args.rwp_psi) \div 20, 50000)

\* the depth-corrected check is requested and the measured BOP pressure is
\* above the nominal pressure
BopAboveNominal(p) ==
    /\ BopCheckRequested(args)
    /\ BopMeasuredPressurePsi(SeqMax(p), Val(args.fluid_density_kg_m3), Val(args.lda_m),
                              args.spec.measured_bop_constant_psi_per_m_sg)
          > Val(args.bop_nominal_pressure_psi)

OverpressureVerdict(p, idx) ==
    /\ ~ret.ok
    /\ ret.reason = IF Len(p) < 20 THEN "series_too_short"
                    ELSE IF Len(idx) < 10 THEN "insufficient_samples_in_observation_window"
                    ELSE IF BopAboveNominal(p) THEN "bop_measured_pressure_above_nominal_limit"
                    ELSE "overpressure_above_rwp_limit"

\* C24: when rwp_psi is supplied and the maximum smoothed pressure of the
\* full series is above RWP + min(0.05 RWP, 500 psi), the test fails with
\* overpressure_above_rwp_limit whatever the mode and whatever the
\* mode-specific checks would say; only series_too_short,
\* insufficient_samples_in_observation_window and the depth-corrected
\* BOP-pressure failure come before it.
C24_OverpressureBeforeModeChecks ==
    ( /\ op = "evaluate_pressure_test" /\ ~ret.raised
      /\ OverpressureAboveRwp(PreparedSeries(args).p) )
    => OverpressureVerdict(PreparedSeries(args).p,
                           ObservationIdx(args, PreparedSeries(args).t))

\* a high test without designated pressure, the pressure above RWP + 500 psi
\* and below RWP + 5%: the overpressure is reported
C24_Witness ==
    /\ op = "evaluate_pressure_test" /\ ~ret.raised
    /\ args.spec.mode = "high" /\ IsNone(args.designated_pressure_psi)
    /\ OverpressureAboveRwp(PreparedSeries(args).p)
    /\ SeqMax(PreparedSeries(args).p) <= Val(args.rwp_psi) + Val(args.rwp_psi) \div 20
    /\ ret.reason = "overpressure_above_rwp_limit"

\* the stabilization rule is enabled and an RWP is supplied
StabilizationRuleApplies ==
    HighCall /\ args.spec.require_rwp_stabilization_rule /\ ~IsNone(args.rwp_psi)

\* the robust end pressure of the window (end sum over k) is below
\* max(designated, min_rwp_fraction * RWP), compared in hundredths
EndBelowStabilizationLimit(p, idx) ==
    /\ Len(idx) >= 10
    /\ ~IsNone(args.designated_pressure_psi)
    /\ WindowEndSum(p, idx) * 100
          < Max(Val(args.designated_pressure_psi) * 100,
                args.spec.min_rwp_fraction * Val(args.rwp_psi)) * EdgeCount(Len(idx))

StabilizationVerdict(p, idx) ==
    /\ ~ret.ok
    /\ (ReachedModeChecks("high") /\ HighFirstViolated(p, idx) = "")
          => ret.reason = "high_test_stabilization_below_required_limit"

\* C25: in high mode with the RWP-stabilization rule enabled and an RWP
\* supplied, the test is never ok when the robust end pressure of the
\* observation window is below max(designated, min_rwp_fraction * RWP), and
\* when every earlier check passes the reason is
\* high_test_stabilization_below_required_limit.
C25_StabilizationRule ==
    ( /\ StabilizationRuleApplies
      /\ EndBelowStabilizationLimit(PreparedSeries(args).p,
                                    ObservationIdx(args, PreparedSeries(args).t)) )
    => StabilizationVerdict(PreparedSeries(args).p,
                            ObservationIdx(args, PreparedSeries(args).t))

\* the end pressure is at the designated pressure and below the fraction of
\* RWP, every earlier check passes, and the stabilization failure is reported
C25_Witness ==
    /\ StabilizationRuleApplies
    /\ ret.reason = "high_test_stabilization_below_required_limit"
    /\ ret.details.end_sum >= Val(args.designated_pressure_psi) * ret.details.k

SoakCall == op = "evaluate_soak_test" /\ ~ret.raised

\* the series of a soak call in ascending time order
SoakOrder(a) ==
    IF Unsorted(a.time_s) THEN ArgSort(a.time_s) ELSE BuildSeq(LAMBDA i : i, 1, Len(a.time_s))
SoakTimes(a) == BuildSeq(LAMBDA i : a.time_s[SoakOrder(a)[i]], 1, Len(a.time_s))
SoakPressures(a) == BuildSeq(LAMBDA i : a.acc_pressure_psi[SoakOrder(a)[i]], 1, Len(a.time_s))

\* the data span less than the required duration
SpanTooShort(t, spec) == t[Len(t)] - t[1] < spec.duration_min * 60

\* the samples of checked block k (from 0): those with time in
\* [t_end - duration + k step, t_end - duration + (k + 1) step]
CheckedBlock(t, spec, k) ==
    SelectSeq(BuildSeq(LAMBDA i : i, 1, Len(t)),
              LAMBDA i : /\ t[i] >= t[Len(t)] - spec.duration_min * 60 + k * spec.step_min * 60
                         /\ t[i] <= t[Len(t)] - spec.duration_min * 60 + (k + 1) * spec.step_min * 60)

CheckedBlocks(spec) == 0..(BlockCount(spec) - 1)

SomeBlockShort(t, spec) == \E k \in CheckedBlocks(spec) : Len(CheckedBlock(t, spec, k)) < 5

\* robust start mean minus robust end mean of the block above the allowance
BlockOverLimit(p, idx, allow) ==
    WindowStartSum(p, idx) - WindowEndSum(p, idx) > allow * EdgeCount(Len(idx))

SomeBlockOverLimit(t, p, spec, allow) ==
    \E k \in CheckedBlocks(spec) : BlockOverLimit(p, CheckedBlock(t, spec, k), allow)

SoakVerdictAsClaimed(t, p, spec, allow) ==
    IF SpanTooShort(t, spec) THEN ~ret.ok /\ ret.reason = "insufficient_duration"
    ELSE IF SomeBlockShort(t, spec) THEN ~ret.ok /\ ret.reason = "insufficient_samples_in_block"
    ELSE IF SomeBlockOverLimit(t, p, spec, allow) THEN ~ret.ok /\ ret.reason = "drop_exceeds_limit"
    ELSE ret.reason \in {"ok", "requires_extended_observation_until_pump_interval_above_4h"}
         /\ (ret.ok <=> ret.reason = "ok")

\* C26: evaluate_soak_test answers ok = true only if the data span the
\* required duration, every checked block has at least 5 samples and in
\* every block the robust start mean minus the robust end mean is at most
\* allowed_drop_per_step(pump_start_psi); a shorter span fails with
\* insufficient_duration, otherwise a block of fewer than 5 samples fails
\* with insufficient_samples_in_block, otherwise a block over the limit
\* fails with drop_exceeds_limit.
C26_SoakOkOnlyWithinLimits ==
    SoakCall => SoakVerdictAsClaimed(SoakTimes(args), SoakPressures(args), args.spec,
                                     AllowedDropPerStep(args.pump_start_psi))

\* a block exactly at the allowance, none above it, and the test passes
C26_Witness ==
    /\ SoakCall /\ ret.ok
    /\ \E k \in CheckedBlocks(args.spec) :
          WindowStartSum(SoakPressures(args), CheckedBlock(SoakTimes(args), args.spec, k))
            - WindowEndSum(SoakPressures(args), CheckedBlock(SoakTimes(args), args.spec, k))
          = AllowedDropPerStep(args.pump_start_psi)
              * EdgeCount(Len(CheckedBlock(SoakTimes(args), args.spec, k)))

ClosingCall == op = "evaluate_closing_times" /\ ~ret.raised

\* an annular or ram record without a close time
MissingCloseTime(r) ==
    /\ Lower(Get(r.type, "")) \in {"annular", "ram"}
    /\ IsNone(r.close_time_s)

\* a time above its limit: the close time of an annular or ram record, the
\* close or open time of a subsea kill/choke valve
LimitExceeded(r, spec) ==
    \/ /\ Lower(Get(r.type, "")) = "annular"
       /\ ~IsNone(r.close_time_s) /\ Val(r.close_time_s) > AnnularLimit(r, spec)
    \/ /\ Lower(Get(r.type, "")) = "ram"
       /\ ~IsNone(r.close_time_s) /\ Val(r.close_time_s) > RamLimit(r, spec)
    \/ /\ Lower(Get(r.type, "")) = "valve"
       /\ Lower(Get(r.environment, "subsea")) = "subsea"
       /\ Lower(Get(r.service, "")) \in {"kill", "choke", "kiv", "civ"}
       /\ \/ ~IsNone(r.close_time_s) /\ Val(r.close_time_s) > spec.max_subsea_kill_choke_valve_time_s
          \/ ~IsNone(r.open_time_s) /\ Val(r.open_time_s) > spec.max_subsea_kill_choke_valve_time_s

ClosingCheckFailed ==
    \E i \in 1..Len(args.records) :
        MissingCloseTime(args.records[i]) \/ LimitExceeded(args.records[i], args.spec)

RegulatorCheckFailed ==
    /\ MustValidateRegulators(args)
    /\ ~EvaluateRegulators(Get(args.regulator_records, <<>>), args.spec).ok

\* C27: evaluate_closing_times answers ok = false exactly when a
\* closing-time check failed (a limit exceeded, or an annular or ram record
\* without close time) or the regulator checks failed; the reason is ok
\* when neither failed, closing_time_exceeds_limit when only closing times
\* failed, regulator_criteria_not_met when only the regulators failed and
\* closing_time_and_regulator_criteria_not_met when both failed.
C27_VerdictCombinesBothChecks ==
    ClosingCall =>
        /\ ret.ok <=> ~(ClosingCheckFailed \/ RegulatorCheckFailed)
        /\ ret.reason =
              IF ClosingCheckFailed /\ RegulatorCheckFailed
              THEN "closing_time_and_regulator_criteria_not_met"
              ELSE IF ClosingCheckFailed THEN "closing_time_exceeds_limit"
              ELSE IF RegulatorCheckFailed THEN "regulator_criteria_not_met"
              ELSE "ok"

\* a record without close time and a regulator failure together
C27_Witness ==
    /\ ClosingCall
    /\ \E i \in 1..Len(args.records) : MissingCloseTime(args.records[i])
    /\ \A i \in 1..Len(args.records) : ~LimitExceeded(args.records[i], args.spec)
    /\ RegulatorCheckFailed
    /\ ret.reason = "closing_time_and_regulator_criteria_not_met"

\* max(min_delta_p_pa, 4 L tau0 / D), for a tube whose length is a multiple
\* of its diameter
ClaimedThresholdPa(P) ==
    Max(P.min_delta_p_pa,
        4 * (P.equivalent_length_m \div P.hydraulic_diameter_m) * P.yield_stress_pa)

\* the orifice flow of the valve for a differential of magnitude dP_part,
\* with the gain of the whole differential dP, in the direction given
OrificeFlowOfPart(P, a, dP_part, dP, direction) ==
    direction * MulDiv(OrificeFlow(P, EffectiveArea(P, ClampOpening(P, a.opening)), dP_part, a.rho),
                       FlowGain(P, direction, dP), 1000)

FlowCall == op = "flow_m3s"

\* C28: flow_m3s is exactly zero whenever |p_up - p_dn| is at or below the
\* blocking threshold max(min_delta_p_pa, 4 L tau0 / D), for every opening;
\* above it, the flow is the orifice flow of the part of the differential
\* above the threshold (zero for a reverse differential when reverse flow
\* is not allowed).
C28_BlockedAtOrBelowThreshold ==
    FlowCall =>
        IF Abs(args.p_up_pa - args.p_dn_pa) <= ClaimedThresholdPa(obj)
        THEN ret = 0
        ELSE ret = IF args.p_up_pa < args.p_dn_pa /\ ~obj.allow_reverse_flow THEN 0
                   ELSE OrificeFlowOfPart(obj, args,
                                          Abs(args.p_up_pa - args.p_dn_pa) - ClaimedThresholdPa(obj),
                                          Abs(args.p_up_pa - args.p_dn_pa),
                                          Sign(args.p_up_pa - args.p_dn_pa))

\* a forward differential exactly at a positive threshold, the valve fully
\* open, no flow
C28_Witness ==
    /\ FlowCall
    /\ args.p_up_pa - args.p_dn_pa = ClaimedThresholdPa(obj)
    /\ ClaimedThresholdPa(obj) > 0
    /\ ClampOpening(obj, args.opening) = 1000
    /\ ret = 0

\* the number of samples of a soak call inside the final window
\* [t_end - duration, t_end]
WindowSize(t, spec) ==
    Cardinality({i \in 1..Len(t) : t[i] >= t[Len(t)] - spec.duration_min * 60})

\* the number of checked blocks that hold window sample i
BlocksHolding(blocks, i) ==
    Cardinality({k \in 1..Len(blocks) : \E j \in 1..Len(blocks[k]) : blocks[k][j] = i})

\* a soak call whose blocks were all checked
AllBlocksChecked ==
    /\ SoakCall
    /\ ret.reason \in {"ok", "drop_exceeds_limit",
                       "requires_extended_observation_until_pump_interval_above_4h"}

\* C29: for a SoakTestSpec with positive duration_min and step_min, every
\* sample inside the final window [t_end - duration, t_end] belongs to
\* exactly one checked block: none escapes the per-block drop check and
\* none is counted in two blocks.
C29_BlocksPartitionWindow ==
    (AllBlocksChecked /\ args.spec.duration_min > 0 /\ args.spec.step_min > 0)
    => \A i \in 1..WindowSize(SoakTimes(args), args.spec) :
           BlocksHolding(ret.details.blocks, i) = 1

\* a network built by build_system_from_cfg(cfg), leak_CdA_m2 left at its
\* default, right after a fault of the kind given was applied to cfg
BuiltAfter(kind) ==
    /\ op = "build_system_from_cfg" /\ ~ret.raised
    /\ args.leak_CdA_m2 = 0
    /\ Len(prev) > 0
    /\ prev[Len(prev)].args.fault.kind = kind

\* the fault applied last and the configuration it was applied to
LastFault == prev[Len(prev)].args.fault
ConfigBeforeFault == prev[Len(prev)].args.cfg

\* actuator pressures above atmospheric
PressuresAboveAtmospheric == {100001, 200000, 20700000}

LeakTakesEffect ==
    /\ ret.value.hp.CdA_leak_m2 = LastFault.CdA_leak_m2
    /\ LastFault.CdA_leak_m2 > 0 =>
          \A p \in PressuresAboveAtmospheric :
              LeakFlowM3s(ret.value, p)
                # LeakFlowM3s(BuildSystemFromCfg(ConfigBeforeFault, NoneV, 0).value, p)

BulkModulusDropTakesEffect ==
    ret.value.hp.bulk_modulus
        = (ConfigBeforeFault["fluid"]["bulk_modulus"] * LastFault.factor) \div 100

CloggingTakesEffect ==
    ( /\ LastFault.valve_name = ret.value.valve.name
      /\ Has(ConfigBeforeFault["valves"][LastFault.valve_name], "area_m2") )
    => ret.value.valve.area_m2
          = ((ConfigBeforeFault["valves"][LastFault.valve_name]["area_m2"]
                * LastFault.area_factor) \div 100) \div 1000

\* C30: a fault applied to the configuration takes effect in the network
\* built from it: after LeakageFault(CdA).apply(cfg) the network of
\* build_system_from_cfg(cfg) has CdA_leak_m2 = CdA, and for CdA > 0 a leak
\* flow other than the healthy network's at every P_act above atmospheric;
\* after BulkModulusDropFault it has the reduced bulk modulus; after
\* CloggingFault on the first valve its valve has the reduced area.
C30_FaultTakesEffectInBuiltNetwork ==
    /\ BuiltAfter("LeakageFault") => LeakTakesEffect
    /\ BuiltAfter("BulkModulusDropFault") => BulkModulusDropTakesEffect
    /\ BuiltAfter("CloggingFault") => CloggingTakesEffect
=============================================================================
